---- MODULE Spec2Model ----
(***************************************************************************)
(* Model of the heuristic expense-analysis pipeline of the budget planner: *)
(*   src/src/services/memoryService.ts          (MemoryService)            *)
(*   src/src/services/expenseParserService.ts   (ExpenseParserService)     *)
(*   src/src/services/multiStageExpenseParser.ts (MultiStageExpenseParser) *)
(*                                                                         *)
(* Conventions.                                                            *)
(*  - A date is a day number, day 0 being 2024-01-01 (UTC).  The code      *)
(*    holds 'YYYY-MM-DD' strings and reads them with new Date(..), which   *)
(*    is UTC midnight; the local-time getters and setters of Date are      *)
(*    modelled for a host whose time zone is UTC.                          *)
(*  - Every date of the model lies after 2001-09-09, so its millisecond    *)
(*    time stamp has 13 digits and the comparator-less Array.sort() of     *)
(*    identifyRecurringExpenses (which compares the decimal strings)       *)
(*    orders the time stamps as numbers.                                   *)
(*  - Amounts are integers; an average is an exact fraction, and every     *)
(*    comparison of the code between floating-point values is made on the  *)
(*    exact values (cross-multiplied).                                     *)
(*  - An absent merchantName is the empty string (both are falsy in        *)
(*    `e.merchantName || e.description`).                                  *)
(***************************************************************************)
EXTENDS Integers, Sequences, FiniteSets, TLC

VARIABLES
  expenses,   \* the caller's ParsedExpense[] (one array object, shared)
  input,      \* its contents when it was handed over (history variable)
  metadata,   \* the ExpenseMetadata handed to extractMemoryFromExpenses
  out,        \* per private analysis of MemoryService: <<>> while it has
              \* not run, <<result>> once it has
  profiles,   \* derived part of the profiles returned by the successive
              \* extractMemoryFromExpenses calls on that array
  memories,   \* MemoryService.memories: userId -> stored profile
  storage,    \* localStorage['ai-memory-profiles'], as JSON.parse reads it
  parser,     \* the class whose parseExpenseFile is called: "basic" for
              \* ExpenseParserService, "multi" for MultiStageExpenseParser
  file,       \* content of the uploaded file: a sequence of lines
  pc,         \* where the parseExpenseFile call stands (its pending await)
  updates,    \* the onStageUpdate calls made so far: <<stage, status>>
  work,       \* the stage results the call holds
  settled     \* how the promise of parseExpenseFile settled: <<>> while
              \* it is pending

memVars == <<expenses, input, metadata, out, profiles, memories, storage>>

parseVars == <<parser, file, pc, updates, work, settled>>

vars ==
  <<expenses, input, metadata, out, profiles, memories, storage,
    parser, file, pc, updates, work, settled>>

----------------------------------------------------------------------------
(* Bounds of the model *)

\* longest freely chosen transaction list
MaxLen == 4
\* longest freely chosen list shared by interleaved analyses
MaxShared == 3
\* extractMemoryFromExpenses calls on one array
MaxRuns == 2

----------------------------------------------------------------------------
(* Generic helpers *)

Max2(a, b) == IF a >= b THEN a ELSE b

Min2(a, b) == IF a <= b THEN a ELSE b

RECURSIVE Gcd(_, _)
Gcd(a, b) == IF b = 0 THEN a ELSE Gcd(b, a % b)

\* an exact fraction n/d (d > 0, n >= 0), in lowest terms
Frac(n, d) ==
  LET g == Gcd(n, d) IN [num |-> n \div g, den |-> d \div g]

\* the number 0 / 0
NaN == [num |-> 0, den |-> 0]

RECURSIVE SumSeq(_)
SumSeq(s) == IF s = <<>> THEN 0 ELSE Head(s) + SumSeq(Tail(s))

RECURSIVE MaxSeq(_)
MaxSeq(s) == IF Len(s) = 1 THEN s[1] ELSE Max2(Head(s), MaxSeq(Tail(s)))

RECURSIVE MinSeq(_)
MinSeq(s) == IF Len(s) = 1 THEN s[1] ELSE Min2(Head(s), MinSeq(Tail(s)))

Range(s) == {s[i] : i \in 1..Len(s)}

\* sequences over S of length 0..n
SeqsUpTo(S, n) == UNION {[1..k -> S] : k \in 0..n}

\* floor of the square root
RECURSIVE ISqrtFrom(_, _, _)
ISqrtFrom(n, lo, hi) ==
  IF lo >= hi THEN lo
  ELSE LET mid == (lo + hi + 1) \div 2
       IN IF mid <= n \div mid THEN ISqrtFrom(n, mid, hi)
          ELSE ISqrtFrom(n, lo, mid - 1)

ISqrt(n) == ISqrtFrom(n, 0, Min2(n, 46340))

----------------------------------------------------------------------------
(* Calendar: the Date arithmetic the code relies on *)

EpochYear == 2024

IsLeap(y) == (y % 4 = 0 /\ y % 100 # 0) \/ y % 400 = 0

DaysInYear(y) == IF IsLeap(y) THEN 366 ELSE 365

\* m is a JS month index, 0..11
DaysInMonth(y, m) ==
  IF m = 1 THEN (IF IsLeap(y) THEN 29 ELSE 28)
  ELSE IF m \in {3, 5, 8, 10} THEN 30 ELSE 31

RECURSIVE DaysBeforeYear(_)
DaysBeforeYear(y) ==
  IF y <= EpochYear THEN 0 ELSE DaysBeforeYear(y - 1) + DaysInYear(y - 1)

RECURSIVE DaysBeforeMonth(_, _)
DaysBeforeMonth(y, m) ==
  IF m = 0 THEN 0 ELSE DaysBeforeMonth(y, m - 1) + DaysInMonth(y, m - 1)

\* ECMAScript MakeDay: month and day-of-month may overflow and carry
MakeDay(y, m, d) ==
  LET yy == y + (m \div 12)
      mm == m % 12
  IN DaysBeforeYear(yy) + DaysBeforeMonth(yy, mm) + d - 1

RECURSIVE YearFrom(_, _)
YearFrom(n, y) ==
  IF n < DaysBeforeYear(y + 1) THEN y ELSE YearFrom(n, y + 1)

getFullYear(n) == YearFrom(n, EpochYear)

RECURSIVE MonthFrom(_, _, _)
MonthFrom(n, y, m) ==
  IF n < DaysBeforeYear(y) + DaysBeforeMonth(y, m + 1) THEN m
  ELSE MonthFrom(n, y, m + 1)

getMonth(n) == MonthFrom(n, getFullYear(n), 0)

getDate(n) ==
  n - DaysBeforeYear(getFullYear(n))
    - DaysBeforeMonth(getFullYear(n), getMonth(n)) + 1

\* the day number of a calendar date written y-m-d (m = 1..12)
Day(y, m, d) == MakeDay(y, m - 1, d)

----------------------------------------------------------------------------
(* Transactions *)

Tx(date, description, amount, category) ==
  [date |-> date, description |-> description, amount |-> amount,
   category |-> category, merchantName |-> ""]

\* expense.merchantName || expense.description
MerchantKey(e) ==
  IF e.merchantName # "" THEN e.merchantName ELSE e.description

isEssentialCategory(category) ==
  category \in {"Housing", "Bills & Utilities", "Healthcare", "Insurance",
                "Transportation"}

\* stable insertion of e by date: what expenses.sort((a, b) => a.date - b.date)
\* does to one element (Array.prototype.sort is stable)
RECURSIVE InsertByDate(_, _)
InsertByDate(e, s) ==
  IF s = <<>> THEN <<e>>
  ELSE IF e.date < Head(s).date THEN <<e>> \o s
       ELSE <<Head(s)>> \o InsertByDate(e, Tail(s))

RECURSIVE SortByDate(_)
SortByDate(s) ==
  IF s = <<>> THEN <<>>
  ELSE InsertByDate(s[Len(s)], SortByDate(SubSeq(s, 1, Len(s) - 1)))

RECURSIVE InsertNum(_, _)
InsertNum(x, s) ==
  IF s = <<>> THEN <<x>>
  ELSE IF x < Head(s) THEN <<x>> \o s
       ELSE <<Head(s)>> \o InsertNum(x, Tail(s))

\* dates.sort() on 13-digit time stamps
RECURSIVE SortNums(_)
SortNums(s) ==
  IF s = <<>> THEN <<>> ELSE InsertNum(Head(s), SortNums(Tail(s)))

\* keys of a Map filled in list order: first appearance order
RECURSIVE KeysInOrder(_, _)
KeysInOrder(s, seen) ==
  IF s = <<>> THEN <<>>
  ELSE IF Head(s) \in seen THEN KeysInOrder(Tail(s), seen)
       ELSE <<Head(s)>> \o KeysInOrder(Tail(s), seen \cup {Head(s)})

----------------------------------------------------------------------------
(* MemoryService.identifyRecurringExpenses *)

\* the if-chain on dayInterval = gapSum / gapCount; `frequency` starts as
\* 'monthly' and keeps that value when no branch is taken
FrequencyOf(gapSum, gapCount) ==
  IF gapSum <= 7 * gapCount THEN "weekly"
  ELSE IF gapSum <= 14 * gapCount THEN "biweekly"
  ELSE IF gapSum <= 31 * gapCount THEN "monthly"
  ELSE IF gapSum <= 92 * gapCount THEN "quarterly"
  ELSE IF gapSum <= 365 * gapCount THEN "annual"
  ELSE "monthly"

\* a slip calculateNextDueDate could hold: periods as fixed numbers of days
calculateNextDueDateInDays(lastDate, frequency) ==
  CASE frequency = "weekly" -> lastDate + 7
    [] frequency = "biweekly" -> lastDate + 14
    [] frequency = "monthly" -> lastDate + 30
    [] frequency = "quarterly" -> lastDate + 90
    [] frequency = "annual" -> lastDate + 365
    [] OTHER -> lastDate

calculateNextDueDate(lastDate, frequency) ==
  CASE frequency = "weekly" -> lastDate + 7
    [] frequency = "biweekly" -> lastDate + 14
    [] frequency = "monthly" ->
         MakeDay(getFullYear(lastDate), getMonth(lastDate) + 1, getDate(lastDate))
    [] frequency = "quarterly" ->
         MakeDay(getFullYear(lastDate), getMonth(lastDate) + 3, getDate(lastDate))
    [] frequency = "annual" ->
         MakeDay(getFullYear(lastDate) + 1, getMonth(lastDate), getDate(lastDate))
    [] OTHER -> lastDate

\* merchantGroups.get(key): the expenses of one key, in list order
GroupOf(es, key) == SelectSeq(es, LAMBDA e : MerchantKey(e) = key)

Amounts(es) == [i \in 1..Len(es) |-> es[i].amount]

\* a slip SimilarAmounts could hold: the spread compared with 20% of the total
SimilarAmountsOfTotal(amounts) ==
  5 * (MaxSeq(amounts) - MinSeq(amounts)) < SumSeq(amounts)

\* variance < avgAmount * 0.2, with variance = max - min and
\* avgAmount = sum / length
SimilarAmounts(amounts) ==
  5 * Len(amounts) * (MaxSeq(amounts) - MinSeq(amounts)) < SumSeq(amounts)

\* sum of the intervals between the sorted dates of a group
GapSum(expenseList) ==
  LET dates == SortNums([i \in 1..Len(expenseList) |-> expenseList[i].date])
      intervals == [i \in 1..(Len(dates) - 1) |-> dates[i + 1] - dates[i]]
  IN SumSeq(intervals)

\* the body of merchantGroups.forEach: the entries one group pushes
RecurringOfGroup(merchant, expenseList) ==
  IF Len(expenseList) >= 2 /\ SimilarAmounts(Amounts(expenseList))
  THEN LET amounts == Amounts(expenseList)
           frequency == FrequencyOf(GapSum(expenseList), Len(expenseList) - 1)
           category == expenseList[1].category
       IN << [name |-> merchant,
              category |-> category,
              amount |-> Frac(SumSeq(amounts), Len(amounts)),
              frequency |-> frequency,
              nextDueDate |->
                calculateNextDueDate(expenseList[Len(expenseList)].date, frequency),
              isEssential |-> isEssentialCategory(category),
              canOptimize |-> SumSeq(amounts) > 50 * Len(amounts)
                              /\ ~isEssentialCategory(category)] >>
  ELSE <<>>

RECURSIVE RecurringOfKeys(_, _)
RecurringOfKeys(es, keys) ==
  IF keys = <<>> THEN <<>>
  ELSE RecurringOfGroup(Head(keys), GroupOf(es, Head(keys)))
       \o RecurringOfKeys(es, Tail(keys))

identifyRecurringExpenses(es) ==
  RecurringOfKeys(es,
    KeysInOrder([i \in 1..Len(es) |-> MerchantKey(es[i])], {}))

----------------------------------------------------------------------------
(* MemoryService.detectAnomalies *)

\* a slip IsOutlier could hold: the standard deviation left out
IsOutlierAboveAverage(amount, n, s, q) == n * amount - s > 0

\* expense.amount > avg + 3 * stdDev for a list of n amounts with sum s and
\* sum of squares q: with x = n*amount - s and d = n*q - s*s (n*n times the
\* population variance) the test is x > 3 * sqrt(d), decided exactly
IsOutlier(amount, n, s, q) ==
  LET x == n * amount - s
      d == n * q - s * s
      r == ISqrt(d)
      k == x - 3 * r
  IN IF k <= 0 THEN FALSE
     ELSE IF k >= 3 THEN TRUE
     ELSE 6 * r * k + k * k > 9 * (d - r * r)

\* first loop: one 'unusual-spending' entry per outlier, in list order
UnusualSpending(es) ==
  LET amounts == Amounts(es)
      s == SumSeq(amounts)
      q == SumSeq([i \in 1..Len(es) |-> amounts[i] * amounts[i]])
      hits == SelectSeq(es, LAMBDA e : IsOutlier(e.amount, Len(es), s, q))
  IN [i \in 1..Len(hits) |->
        [date |-> hits[i].date, type |-> "unusual-spending",
         description |-> hits[i].description, amount |-> hits[i].amount,
         resolved |-> FALSE]]

\* a slip MissingData could hold: a gap of 14 days flagged as well
RECURSIVE MissingDataFromFortnight(_, _)
MissingDataFromFortnight(sorted, i) ==
  IF i > Len(sorted) THEN <<>>
  ELSE (IF sorted[i].date - sorted[i - 1].date >= 14
        THEN << [date |-> sorted[i - 1].date, type |-> "missing-data",
                 description |-> "Data gap",
                 amount |-> sorted[i].date - sorted[i - 1].date,
                 resolved |-> FALSE] >>
        ELSE <<>>)
       \o MissingDataFromFortnight(sorted, i + 1)

\* second loop, over the list sorted by date: one 'missing-data' entry per
\* consecutive pair more than 14 days apart; `amount` holds the day count
\* that the code writes into the description text
RECURSIVE MissingData(_, _)
MissingData(sorted, i) ==
  IF i > Len(sorted) THEN <<>>
  ELSE (IF sorted[i].date - sorted[i - 1].date > 14
        THEN << [date |-> sorted[i - 1].date, type |-> "missing-data",
                 description |-> "Data gap",
                 amount |-> sorted[i].date - sorted[i - 1].date,
                 resolved |-> FALSE] >>
        ELSE <<>>)
       \o MissingData(sorted, i + 1)

\* the anomalies returned for the list as it is when the call starts
detectAnomalies(es) == UnusualSpending(es) \o MissingData(SortByDate(es), 2)

\* the caller's array after the call: expenses.sort(...) sorts it in place
ExpensesAfterDetectAnomalies(es) == SortByDate(es)

----------------------------------------------------------------------------
(* MemoryService: the other analyses of extractMemoryFromExpenses *)

\* (maxDate - minDate) in days; 0 for an empty list
DaysDiff(es) ==
  IF es = <<>> THEN 0
  ELSE LET dates == [i \in 1..Len(es) |-> es[i].date]
       IN MaxSeq(dates) - MinSeq(dates)

\* months covered: 0 for an empty list, else max(daysDiff / 30, 1)
calculateTimeSpan(es) ==
  IF es = <<>> THEN Frac(0, 1)
  ELSE IF DaysDiff(es) > 30 THEN Frac(DaysDiff(es), 30) ELSE Frac(1, 1)

\* per-category sum divided by Math.max(monthCount, 1)
calculateCategoryTotals(es) ==
  LET cats == {es[i].category : i \in 1..Len(es)}
      total(c) == SumSeq(Amounts(SelectSeq(es, LAMBDA e : e.category = c)))
  IN [c \in cats |-> Frac(total(c) * 30, Max2(DaysDiff(es), 30))]

\* the frequency labels set from transactionCount
MerchantFrequency(count) ==
  IF count >= 20 THEN "daily"
  ELSE IF count >= 4 THEN "weekly"
  ELSE IF count >= 1 THEN "monthly"
  ELSE "occasional"

\* the accumulator of one merchant once every expense has been folded in
MerchantPatternOf(merchant, expenseList) ==
  [name |-> merchant,
   category |-> expenseList[1].category,
   averageAmount |-> Frac(SumSeq(Amounts(expenseList)), Len(expenseList)),
   frequency |-> MerchantFrequency(Len(expenseList)),
   totalSpent |-> SumSeq(Amounts(expenseList)),
   transactionCount |-> Len(expenseList),
   lastVisit |-> MaxSeq([i \in 1..Len(expenseList) |-> expenseList[i].date]),
   trend |-> "stable"]

\* a slip InsertBySpent could hold: ascending order
RECURSIVE InsertBySpentAscending(_, _)
InsertBySpentAscending(p, s) ==
  IF s = <<>> THEN <<p>>
  ELSE IF p.totalSpent < Head(s).totalSpent THEN <<p>> \o s
       ELSE <<Head(s)>> \o InsertBySpentAscending(p, Tail(s))

\* stable insertion for .sort((a, b) => b.totalSpent - a.totalSpent)
RECURSIVE InsertBySpent(_, _)
InsertBySpent(p, s) ==
  IF s = <<>> THEN <<p>>
  ELSE IF p.totalSpent > Head(s).totalSpent THEN <<p>> \o s
       ELSE <<Head(s)>> \o InsertBySpent(p, Tail(s))

RECURSIVE SortBySpent(_)
SortBySpent(s) ==
  IF s = <<>> THEN <<>>
  ELSE InsertBySpent(s[Len(s)], SortBySpent(SubSeq(s, 1, Len(s) - 1)))

analyzeMerchantPatterns(es) ==
  LET named == SelectSeq(es, LAMBDA e : MerchantKey(e) # "")
      keys == KeysInOrder([i \in 1..Len(named) |-> MerchantKey(named[i])], {})
  IN SortBySpent([i \in 1..Len(keys) |->
                    MerchantPatternOf(keys[i], GroupOf(named, keys[i]))])

\* the bucket key: the month name of the date, which carries no year
MonthKey(e) == getMonth(e.date)

\* every month above the mean of the monthly totals, without the 20% margin
detectSeasonalPatternsAboveAverage(es) ==
  LET months == KeysInOrder([i \in 1..Len(es) |-> MonthKey(es[i])], {})
      spent(m) == SumSeq(Amounts(SelectSeq(es, LAMBDA e : MonthKey(e) = m)))
      total == SumSeq(Amounts(es))
      size == Len(months)
      high == SelectSeq(months, LAMBDA m : spent(m) * size > total)
  IN [i \in 1..Len(high) |->
        [period |-> high[i],
         averageSpend |-> spent(high[i]),
         variance |-> Frac(spent(high[i]) * size - total, size),
         categories |-> <<>>]]

detectSeasonalPatterns(es) ==
  LET months == KeysInOrder([i \in 1..Len(es) |-> MonthKey(es[i])], {})
      spent(m) == SumSeq(Amounts(SelectSeq(es, LAMBDA e : MonthKey(e) = m)))
      total == SumSeq(Amounts(es))
      size == Len(months)
      high == SelectSeq(months, LAMBDA m : 5 * spent(m) * size > 6 * total)
  IN [i \in 1..Len(high) |->
        [period |-> high[i],
         averageSpend |-> spent(high[i]),
         variance |-> Frac(spent(high[i]) * size - total, size),
         categories |-> <<>>]]

TrendMinimum == 30

\* the thirds of the list as it is handed over, without the sort by date
calculateSpendingTrendUnsorted(es) ==
  IF Len(es) < TrendMinimum THEN "stable"
  ELSE LET third == Len(es) \div 3
           firstSum == SumSeq(Amounts(SubSeq(es, 1, third)))
           lastSum == SumSeq(Amounts(SubSeq(es, Len(es) - third + 1, Len(es))))
       IN IF 10 * lastSum > 11 * firstSum THEN "increasing"
          ELSE IF 10 * lastSum < 9 * firstSum THEN "decreasing"
          ELSE "stable"

calculateSpendingTrend(es) ==
  IF Len(es) < TrendMinimum THEN "stable"
  ELSE LET sorted == SortByDate(es)
           third == Len(sorted) \div 3
           firstSum == SumSeq(Amounts(SubSeq(sorted, 1, third)))
           lastSum ==
             SumSeq(Amounts(SubSeq(sorted, Len(sorted) - third + 1, Len(sorted))))
       IN IF 10 * lastSum > 11 * firstSum THEN "increasing"
          ELSE IF 10 * lastSum < 9 * firstSum THEN "decreasing"
          ELSE "stable"

\* the caller's array after the call: sorted in place once the early return
\* for short lists is passed
ExpensesAfterSpendingTrend(es) ==
  IF Len(es) < TrendMinimum THEN es ELSE SortByDate(es)

\* text.toLowerCase().includes(keyword), for the texts of the model
Includes(text, keyword) ==
  keyword \in (CASE text = "Rent" -> {"rent"}
                 [] text = "Gym" -> {"gym"}
                 [] text = "Kids School" -> {"kids", "school"}
                 [] text = "Shell Gas" -> {"gas"}
                 [] text = "Vet" -> {"vet"}
                 [] text = "Hotel" -> {"hotel"}
                 [] OTHER -> {})

inferLifestyle(es, md) ==
  LET hasKids ==
        md.hasKids
        \/ \E i \in 1..Len(es) :
             \/ Includes(es[i].description, "school")
             \/ Includes(es[i].description, "daycare")
             \/ Includes(es[i].description, "kids")
      hasPets ==
        \E i \in 1..Len(es) :
          \/ Includes(es[i].description, "pet")
          \/ Includes(es[i].description, "vet")
          \/ Includes(es[i].merchantName, "petco")
          \/ Includes(es[i].merchantName, "petsmart")
      gasExpenses ==
        SelectSeq(es, LAMBDA e :
          e.category = "Transportation"
          /\ (Includes(e.description, "gas") \/ Includes(e.description, "fuel")))
      healthExpenses == SelectSeq(es, LAMBDA e : e.category = "Healthcare")
      fitnessExpenses ==
        SelectSeq(es, LAMBDA e :
          \/ Includes(e.description, "gym")
          \/ Includes(e.description, "fitness")
          \/ Includes(e.description, "yoga"))
      travelExpenses ==
        SelectSeq(es, LAMBDA e :
          \/ Includes(e.description, "hotel")
          \/ Includes(e.description, "flight")
          \/ Includes(e.description, "airbnb"))
  IN [hasKids |-> hasKids,
      hasPets |-> hasPets,
      hasVehicle |-> Len(gasExpenses) > 2,
      healthSpending |->
        IF Len(healthExpenses) = 0 THEN "minimal"
        ELSE IF Len(healthExpenses) < 5 THEN "regular" ELSE "high",
      fitnessSpending |->
        Frac(SumSeq(Amounts(fitnessExpenses)) * 30, Max2(DaysDiff(es), 30)),
      travelFrequency |->
        IF Len(travelExpenses) = 0 THEN "never"
        ELSE IF Len(travelExpenses) < 2 THEN "rarely"
        ELSE IF Len(travelExpenses) < 5 THEN "occasionally" ELSE "frequently"]

\* a day counts from three small non-essential purchases on
calculateImpulseScoreFromThree(es) ==
  LET dates == {es[i].date : i \in 1..Len(es)}
      nonEssentialCount(d) ==
        Len(SelectSeq(es, LAMBDA e :
              e.date = d /\ ~isEssentialCategory(e.category) /\ e.amount < 100))
      impulseCount == Cardinality({d \in dates : nonEssentialCount(d) >= 3})
  IN IF dates = {} THEN <<NaN>>
     ELSE <<Frac(Min2(100 * impulseCount, 100 * Cardinality(dates)),
                 Cardinality(dates))>>

\* Math.min((impulseCount / dateGroups.size) * 100, 100); 0 / 0 for no date
calculateImpulseScore(es) ==
  LET dates == {es[i].date : i \in 1..Len(es)}
      nonEssentialCount(d) ==
        Len(SelectSeq(es, LAMBDA e :
              e.date = d /\ ~isEssentialCategory(e.category) /\ e.amount < 100))
      impulseCount == Cardinality({d \in dates : nonEssentialCount(d) > 3})
  IN IF dates = {} THEN <<NaN>>
     ELSE <<Frac(Min2(100 * impulseCount, 100 * Cardinality(dates)),
                 Cardinality(dates))>>

----------------------------------------------------------------------------
(* Inputs *)

Rent1 == Tx(Day(2024, 1, 1), "Rent", 8000, "Housing")
Rent2 == Tx(Day(2024, 2, 1), "Rent", 8000, "Housing")
Rent3 == Tx(Day(2024, 3, 1), "Rent", 8000, "Housing")
Gym1 == Tx(Day(2024, 1, 10), "Gym", 300, "Entertainment")
Gym2 == Tx(Day(2024, 1, 15), "Gym", 400, "Entertainment")
Gym3 == Tx(Day(2025, 3, 1), "Gym", 300, "Healthcare")

GymSample == {Gym1, Gym2, Gym3}

Sample == {Rent1, Rent2, Rent3} \cup GymSample

\* n small purchases on n consecutive days, latest first
Pad(n) ==
  [i \in 1..n |->
     Tx(Day(2024, 4, 1) + (n - i), "Coffee", 20 + (i % 3), "Food & Dining")]

\* lists just below and at the length where calculateSpendingTrend sorts
LongLists ==
  {Pad(n) \o <<t>> : n \in (TrendMinimum - 3)..(TrendMinimum - 1), t \in GymSample}

SharedLists == SeqsUpTo(Sample, MaxShared)

Metadatas == [hasKids : BOOLEAN]

UserIds == {"default", "guest"}

Analyses ==
  {"merchants", "recurring", "seasonal", "lifestyle", "trend", "impulse",
   "anomalies"}

----------------------------------------------------------------------------
(* MemoryService as a state machine *)

\* no parseExpenseFile call is in the picture
NoParse ==
  /\ parser = "none"
  /\ file = <<>>
  /\ pc = "idle"
  /\ updates = <<>>
  /\ work = <<>>
  /\ settled = <<>>

\* a MemoryService over an empty localStorage, and a caller's list
InitMemory(lists, metadatas) ==
  /\ input \in lists
  /\ expenses = input
  /\ metadata \in metadatas
  /\ out = [a \in Analyses |-> <<>>]
  /\ profiles = <<>>
  /\ memories = <<>>
  /\ storage = <<>>
  /\ NoParse

\* one private analysis runs on the shared array: its result is kept and the
\* array is left as the call leaves it
Run(a, result, after) ==
  /\ out[a] = <<>>
  /\ out' = [out EXCEPT ![a] = <<result>>]
  /\ expenses' = after
  /\ UNCHANGED <<input, metadata, profiles, memories, storage>>
  /\ UNCHANGED parseVars

RunAnalyzeMerchantPatterns ==
  Run("merchants", analyzeMerchantPatterns(expenses), expenses)

RunIdentifyRecurringExpenses ==
  Run("recurring", identifyRecurringExpenses(expenses), expenses)

RunDetectSeasonalPatterns ==
  Run("seasonal", detectSeasonalPatterns(expenses), expenses)

RunInferLifestyle ==
  Run("lifestyle", inferLifestyle(expenses, metadata), expenses)

RunCalculateSpendingTrend ==
  Run("trend", calculateSpendingTrend(expenses),
      ExpensesAfterSpendingTrend(expenses))

RunCalculateImpulseScore ==
  Run("impulse", calculateImpulseScore(expenses), expenses)

RunDetectAnomalies ==
  Run("anomalies", detectAnomalies(expenses),
      ExpensesAfterDetectAnomalies(expenses))

\* the part of the profile that is derived from the list, evaluated in the
\* order of the object literal: the trend before the anomalies
DerivedProfile(es, md) ==
  LET afterTrend == ExpensesAfterSpendingTrend(es)
      merchantPatterns == analyzeMerchantPatterns(es)
  IN [categoryTotals |-> calculateCategoryTotals(es),
      topMerchants |-> SubSeq(merchantPatterns, 1, Min2(10, Len(merchantPatterns))),
      recurringExpenses |-> identifyRecurringExpenses(es),
      seasonalPatterns |-> detectSeasonalPatterns(es),
      lifestyle |-> inferLifestyle(es, md),
      spendingTrend |-> calculateSpendingTrend(es),
      impulseSpendingScore |-> calculateImpulseScore(afterTrend),
      dataTimeSpan |-> calculateTimeSpan(afterTrend),
      anomalies |-> detectAnomalies(afterTrend)]

\* the caller's array when extractMemoryFromExpenses returns
ExpensesAfterExtract(es) ==
  ExpensesAfterDetectAnomalies(ExpensesAfterSpendingTrend(es))

\* (existing?.aiContext.totalInteractions || 0) + 1
TotalInteractions(userId) ==
  IF userId \in DOMAIN memories THEN memories[userId].totalInteractions + 1 ELSE 1

\* `new Date()` of the call
now == Day(2024, 6, 15)

\* In a stored profile a Date object and the ISO string JSON makes of it are
\* told apart: both name a day, and differ in type.
DateObject(day) == [type |-> "Date", day |-> day]

ISOString(day) == [type |-> "string", day |-> day]

\* the profile object as the map holds it, its Date-valued fields marked
StoredProfile(profile, userId) ==
  [derived |->
     [profile EXCEPT
        !.topMerchants =
          [i \in DOMAIN profile.topMerchants |->
             [profile.topMerchants[i] EXCEPT !.lastVisit = DateObject(@)]],
        !.recurringExpenses =
          [i \in DOMAIN profile.recurringExpenses |->
             [profile.recurringExpenses[i] EXCEPT !.nextDueDate = DateObject(@)]],
        !.anomalies =
          [i \in DOMAIN profile.anomalies |->
             [profile.anomalies[i] EXCEPT !.date = DateObject(@)]]],
   totalInteractions |-> TotalInteractions(userId),
   lastDataUpload |-> DateObject(now)]

\* JSON.stringify followed by JSON.parse, on one profile: a Date comes back
\* as its ISO string (a string as itself) and NaN as null, written <<>>
JSONProfile(stored) ==
  [derived |->
     [stored.derived EXCEPT
        !.topMerchants =
          [i \in DOMAIN stored.derived.topMerchants |->
             [stored.derived.topMerchants[i] EXCEPT
                !.lastVisit = ISOString(@.day)]],
        !.recurringExpenses =
          [i \in DOMAIN stored.derived.recurringExpenses |->
             [stored.derived.recurringExpenses[i] EXCEPT
                !.nextDueDate = ISOString(@.day)]],
        !.anomalies =
          [i \in DOMAIN stored.derived.anomalies |->
             [stored.derived.anomalies[i] EXCEPT !.date = ISOString(@.day)]],
        !.impulseSpendingScore = IF @ = <<NaN>> THEN <<>> ELSE @],
   totalInteractions |-> stored.totalInteractions,
   lastDataUpload |-> ISOString(stored.lastDataUpload.day)]

\* localStorage['ai-memory-profiles'] after saveToLocalStorage, read as the
\* entries JSON.parse gives back
saveToLocalStorage(map) == [u \in DOMAIN map |-> JSONProfile(map[u])]

extractMemoryFromExpenses(userId) ==
  /\ Len(profiles) < MaxRuns
  /\ LET profile == DerivedProfile(expenses, metadata)
         stored == StoredProfile(profile, userId)
         memories2 == [u \in DOMAIN memories \cup {userId} |->
                         IF u = userId THEN stored ELSE memories[u]]
     IN /\ profiles' = Append(profiles, profile)
        /\ expenses' = ExpensesAfterExtract(expenses)
        /\ memories' = memories2
        /\ storage' = saveToLocalStorage(memories2)
  /\ UNCHANGED <<input, metadata, out>>
  /\ UNCHANGED parseVars

Init == InitMemory(SharedLists, Metadatas)

Next == \E userId \in UserIds : extractMemoryFromExpenses(userId)

Spec == Init /\ [][Next]_vars

\* the analyses of one extraction run one by one, in any order
NextAnalyses ==
  \/ RunAnalyzeMerchantPatterns
  \/ RunIdentifyRecurringExpenses
  \/ RunDetectSeasonalPatterns
  \/ RunInferLifestyle
  \/ RunCalculateSpendingTrend
  \/ RunCalculateImpulseScore
  \/ RunDetectAnomalies

SpecAnalyses == Init /\ [][NextAnalyses]_vars

\* identifyRecurringExpenses alone, over every list of up to MaxLen samples
InitRecurring == InitMemory(SeqsUpTo(Sample, MaxLen), {[hasKids |-> FALSE]})

SpecRecurring == InitRecurring /\ [][RunIdentifyRecurringExpenses]_vars

\* calculateSpendingTrend alone, around the length where it starts to sort
InitTrend == InitMemory(LongLists \cup SeqsUpTo(Sample, 2), {[hasKids |-> FALSE]})

SpecTrend == InitTrend /\ [][RunCalculateSpendingTrend]_vars

\* detectAnomalies alone.  The amounts of these lists are written in tens of
\* currency units (9, 10, 11 for 90, 100, 110; 15 for 150; 1500 for 15000):
\* the outlier test is homogeneous in the amounts, and n * sum of squares
\* stays within TLC's integers.
MaxCluster == 50

Cluster(n) ==
  [i \in 1..n |-> Tx(Day(2024, 1, 1) + (i % 10), "Shop", 9 + (i % 3), "Shopping")]

Big == Tx(Day(2024, 1, 5), "Laptop", 1500, "Shopping")
Mid == Tx(Day(2024, 1, 6), "Shoes", 15, "Shopping")

AnomalyLists ==
  {Cluster(n) \o tail : n \in 0..MaxCluster, tail \in SeqsUpTo({Big, Mid}, 2)}

InitAnomalies == InitMemory(AnomalyLists, {[hasKids |-> FALSE]})

SpecAnomalies == InitAnomalies /\ [][RunDetectAnomalies]_vars

----------------------------------------------------------------------------
(* Properties of identifyRecurringExpenses *)

Recurring == out["recurring"][1]

\* the positions of the list that hold an expense of merchant key k
Members(k) == {i \in 1..Len(input) : MerchantKey(input[i]) = k}

MemberTotal(k) == SumSeq(Amounts(GroupOf(input, k)))

\* at least 2 transactions and max(amount) - min(amount) < 0.2 * mean(amount)
Qualifies(k) ==
  /\ Cardinality(Members(k)) >= 2
  /\ \E hi \in Members(k), lo \in Members(k) :
       /\ \A i \in Members(k) :
            input[lo].amount <= input[i].amount
            /\ input[i].amount <= input[hi].amount
       /\ 5 * Cardinality(Members(k)) * (input[hi].amount - input[lo].amount)
            < MemberTotal(k)

InputKeys == {MerchantKey(input[i]) : i \in 1..Len(input)}

\* C4: identifyRecurringExpenses reports a merchant group, once, if and only
\* if the group has at least 2 transactions and max - min < 0.2 * mean.
C4_RecurringIffSimilar ==
  out["recurring"] # <<>> =>
    /\ \A k \in InputKeys :
         (\E i \in DOMAIN Recurring : Recurring[i].name = k) <=> Qualifies(k)
    /\ \A i \in DOMAIN Recurring : Recurring[i].name \in InputKeys
    /\ \A i, j \in DOMAIN Recurring :
         Recurring[i].name = Recurring[j].name => i = j

\* a list with one group that is reported and one group of two transactions
\* that is not
C4_Witness ==
  /\ out["recurring"] # <<>>
  /\ Len(Recurring) = 1
  /\ \E k \in InputKeys : Cardinality(Members(k)) >= 2 /\ ~Qualifies(k)

FrequencyRank(f) ==
  CASE f = "weekly" -> 1
    [] f = "biweekly" -> 2
    [] f = "monthly" -> 3
    [] f = "quarterly" -> 4
    [] f = "annual" -> 5

\* mean gap of a group of n >= 2 dated transactions, as the pair
\* (latest - earliest, n - 1)
SpanOf(k) ==
  LET ds == {input[i].date : i \in Members(k)}
  IN (CHOOSE d \in ds : \A e \in ds : e <= d)
     - (CHOOSE d \in ds : \A e \in ds : d <= e)

GapsOf(k) == Cardinality(Members(k)) - 1

\* C5: the frequency bucket is monotonic in the mean gap: of two reported
\* groups the one with the larger mean gap never gets the shorter period;
\* and a mean gap of exactly 30 days is monthly.
C5_FrequencyMonotonic ==
  out["recurring"] # <<>> =>
    /\ \A i, j \in DOMAIN Recurring :
         SpanOf(Recurring[i].name) * GapsOf(Recurring[j].name)
           <= SpanOf(Recurring[j].name) * GapsOf(Recurring[i].name)
         => FrequencyRank(Recurring[i].frequency)
              <= FrequencyRank(Recurring[j].frequency)
    /\ \A i \in DOMAIN Recurring :
         SpanOf(Recurring[i].name) = 30 * GapsOf(Recurring[i].name)
         => Recurring[i].frequency = "monthly"

RentList == <<Rent1, Rent2, Rent3>>

----------------------------------------------------------------------------
(* Properties of detectAnomalies *)

Anomalies == out["anomalies"][1]

Unusual == SelectSeq(Anomalies, LAMBDA a : a.type = "unusual-spending")

\* amount > mean + 3 * population standard deviation over the whole list:
\* n * amount - sum > 3 * sqrt(n * sum of squares - sum * sum)
AboveThreeSigma(amount) ==
  LET n == Len(input)
      s == SumSeq(Amounts(input))
      q == SumSeq([i \in 1..n |-> input[i].amount * input[i].amount])
      x == n * amount - s
  IN x > 0 /\ x > (9 * (n * q - s * s)) \div x

Outliers == SelectSeq(input, LAMBDA e : AboveThreeSigma(e.amount))

Scenario15000 == Cluster(50) \o <<Big, Mid>>

----------------------------------------------------------------------------
(* Properties of extractMemoryFromExpenses and of the shared list *)

\* C8: two extractMemoryFromExpenses calls on the same list object and
\* metadata return the same derived results (totals, merchant patterns,
\* recurring expenses, seasonal patterns, trend, anomalies).
C8_ExtractTwiceSame ==
  Len(profiles) = 2 => profiles[1] = profiles[2]

\* C9: extractMemoryFromExpenses leaves the caller's list as it was handed
\* over: same transactions, same order.
C9_ListUnchanged ==
  Len(profiles) >= 1 => expenses = input

\* what analysis a returns for list es
ResultOn(a, es) ==
  CASE a = "merchants" -> analyzeMerchantPatterns(es)
    [] a = "recurring" -> identifyRecurringExpenses(es)
    [] a = "seasonal" -> detectSeasonalPatterns(es)
    [] a = "lifestyle" -> inferLifestyle(es, metadata)
    [] a = "trend" -> calculateSpendingTrend(es)
    [] a = "impulse" -> calculateImpulseScore(es)
    [] a = "anomalies" -> detectAnomalies(es)

\* C10: whatever the order in which the analyses run over the shared list,
\* each returns what it returns when it runs first, on the list as handed
\* over.
C10_OrderIndependent ==
  \A a \in Analyses : out[a] # <<>> => out[a][1] = ResultOn(a, input)

----------------------------------------------------------------------------
(* The parsers: values *)

\* the processing date, new Date() at the time of the call
Today == Day(2024, 6, 15)

\* what new Date(text).getTime() is for a text that is no date: NaN
InvalidDate == -1

\* One field of a line or of an LLM answer.  kind "date" is a YYYY-MM-DD text
\* (num is its day number), "number" a numeral possibly with a sign, '$' or
\* thousands separators (num is its value), "text" other text, "empty" ''.
DateF(d) == [kind |-> "date", num |-> d, text |-> ""]
NumF(v) == [kind |-> "number", num |-> v, text |-> ""]
TextF(t) == [kind |-> "text", num |-> 0, text |-> t]
EmptyF == [kind |-> "empty", num |-> 0, text |-> ""]

Abs(x) == IF x < 0 THEN -x ELSE x

\* parseFloat of a field: <<>> for NaN, else <<value>>; parseFloat reads the
\* leading numeral, which for 'YYYY-MM-DD' is the year
ParseFloat(f) ==
  CASE f.kind = "number" -> <<f.num>>
    [] f.kind = "date" -> <<getFullYear(f.num)>>
    [] OTHER -> <<>>

\* validateDate / parseDate: the ISO date of a parseable text, else today's.
\* (First fields of the model are dates, other text or empty.)
validateDate(f) == IF f.kind = "date" THEN f.num ELSE Today

\* MultiStageExpenseParser.parseDate: the same rule as validateDate
parseDate(f) == IF f.kind = "date" THEN f.num ELSE Today

\* MultiStageExpenseParser.parseAmount: Math.abs(parseFloat(cleaned) || 0)
parseAmount(f) ==
  IF f.kind = "number" THEN Abs(f.num)
  ELSE IF f.kind = "date" THEN getFullYear(f.num)
  ELSE 0

\* text of a field as description: parts[1] || 'Transaction'
DescriptionOf(f) ==
  CASE f.kind = "text" -> f.text
    [] f.kind = "empty" -> "Transaction"
    [] f.kind = "number" -> "number"
    [] OTHER -> "date"

Expense(date, description, amount, category, merchantName, isRecurring) ==
  [date |-> date, description |-> description, amount |-> amount,
   category |-> category, merchantName |-> merchantName,
   isRecurring |-> isRecurring]

Categories(es) == {es[i].category : i \in 1..Len(es)}

\* the loop that fills categoryBreakdown: per category, the sum of amounts
CategoryBreakdownOf(es) ==
  [c \in Categories(es) |->
     SumSeq(Amounts(SelectSeq(es, LAMBDA e : e.category = c)))]

RECURSIVE SumOver(_, _)
SumOver(f, S) ==
  IF S = {} THEN 0
  ELSE LET c == CHOOSE x \in S : TRUE IN f[c] + SumOver(f, S \ {c})

\* sum of the values of a category breakdown
SumValues(f) == SumOver(f, DOMAIN f)

----------------------------------------------------------------------------
(* ExpenseParserService *)

generateBasicMetadata(es) ==
  LET total == SumSeq(Amounts(es))
  IN [totalExpenses |-> total,
      periodStart |-> IF es = <<>> THEN Today ELSE es[1].date,
      periodEnd |-> IF es = <<>> THEN Today ELSE es[Len(es)].date,
      categoryBreakdown |-> CategoryBreakdownOf(es),
      topMerchants |-> <<>>,
      recurringExpenses |-> <<>>,
      averageMonthlySpend |-> Frac(total, 3),
      insights |->
        [diningOutFrequency |-> "occasionally",
         hasKids |-> FALSE,
         hasDebt |-> FALSE,
         estimatedIncome |-> Frac((total + 1) \div 2, 1),
         savingsRate |-> 20,
         lifestyle |-> IF total < 9000 THEN "frugal"
                       ELSE IF total < 18000 THEN "moderate" ELSE "comfortable",
         transportMode |-> "mixed",
         subscriptionCount |-> 0,
         emergencyFundMonths |-> 0]]

\* lines.filter(line => line.trim()): a blank line is <<>>
NonBlank(content) == SelectSeq(content, LAMBDA line : line # <<>>)

\* lines[0].toLowerCase().includes('date')
IsHeader(line) ==
  \E i \in 1..Len(line) :
    line[i].kind = "text" /\ line[i].text = "Date"

\* the body of the loop of parseBasicCSV: the expenses one line pushes
ExpensesOfLine(parts) ==
  IF Len(parts) >= 3 /\ ParseFloat(parts[3]) # <<>>
  THEN << Expense(validateDate(parts[1]), DescriptionOf(parts[2]),
                  Abs(ParseFloat(parts[3])[1]), "Other", "", FALSE) >>
  ELSE <<>>

RECURSIVE ExpensesOfLines(_)
ExpensesOfLines(lines) ==
  IF lines = <<>> THEN <<>>
  ELSE ExpensesOfLine(Head(lines)) \o ExpensesOfLines(Tail(lines))

\* the expenses parseBasicCSV collects before it returns or throws
BasicCSVExpenses(content) ==
  LET lines == NonBlank(content)
  IN IF lines # <<>> /\ IsHeader(lines[1]) THEN ExpensesOfLines(Tail(lines))
     ELSE ExpensesOfLines(lines)

Resolved(es, md, source) ==
  << [status |-> "resolved", error |-> "", expenses |-> es,
      metadata |-> md, source |-> source] >>

Rejected(error) ==
  << [status |-> "rejected", error |-> error, expenses |-> <<>>,
      metadata |-> generateBasicMetadata(<<>>), source |-> ""] >>

\* parseBasicCSV inside the catch of parseExpenseFile: its throw
\* ('No valid transactions found') is caught and replaced
ParseBasicCSVOrReject(content) ==
  IF BasicCSVExpenses(content) = <<>>
  THEN Rejected("Unable to parse expense file")
  ELSE Resolved(BasicCSVExpenses(content),
                generateBasicMetadata(BasicCSVExpenses(content)),
                "generateBasicMetadata")

\* the clean-up of one expense of the LLM answer
CleanExpense(e) ==
  Expense(IF e.date = InvalidDate THEN Today ELSE e.date,
          IF e.description = "" THEN "Transaction" ELSE e.description,
          Abs(e.amount),
          IF e.category = "" THEN "Other" ELSE e.category,
          e.merchantName,
          e.isRecurring)

\* An LLM answer: kind "fail" (generateResponse throws), "notJson" (JSON.parse
\* throws), "null" (valid JSON of another shape: the value null) or "ok"
\* (the requested shape, with the payload the call asks for).
FailedAnswers == {[kind |-> k, payload |-> <<>>] : k \in {"fail", "notJson", "null"}}

Ok(payload) == [kind |-> "ok", payload |-> payload]

LlmRent == Expense(Day(2024, 1, 1), "Rent", 8000, "Housing", "Landlord", TRUE)
LlmCafe == Expense(Day(2024, 2, 1), "Cafe", -30, "Food & Dining", "Cafe", FALSE)
LlmBlank == Expense(InvalidDate, "", 12, "", "", FALSE)

LlmExpenseLists ==
  {<<>>, <<LlmRent>>, <<LlmCafe, LlmRent>>, <<LlmBlank>>}

\* a metadata object as the LLM writes it: nothing ties it to the expenses
LlmMetadata ==
  [generateBasicMetadata(<<LlmRent>>) EXCEPT !.totalExpenses = 7970]

BasicAnswers ==
  FailedAnswers
  \cup {Ok([expenses |-> es, metadata |-> md]) :
          es \in LlmExpenseLists, md \in {<<>>, <<LlmMetadata>>}}

\* what parseExpenseFile of ExpenseParserService settles to, given the LLM
\* answer
BasicOutcome(content, answer) ==
  IF answer.kind = "ok"
  THEN LET es == [i \in 1..Len(answer.payload.expenses) |->
                    CleanExpense(answer.payload.expenses[i])]
       IN IF answer.payload.metadata = <<>>
          THEN Resolved(es, generateBasicMetadata(es), "generateBasicMetadata")
          ELSE Resolved(es, answer.payload.metadata[1], "llm")
  ELSE ParseBasicCSVOrReject(content)

----------------------------------------------------------------------------
(* MultiStageExpenseParser *)

\* spread of expenses[idx] for an index outside the array: no field but
\* isRecurring is set
UndefinedExpense ==
  Expense(InvalidDate, "undefined", 0, "undefined", "undefined", TRUE)

\* stage 2, catch branch: basic categorization of the raw transactions
Stage2Fallback(rawTransactions) ==
  [i \in 1..Len(rawTransactions) |->
     Expense(parseDate(rawTransactions[i].date),
             rawTransactions[i].description,
             parseAmount(rawTransactions[i].amount),
             "Other",
             rawTransactions[i].description,
             FALSE)]

\* stage 2, try branch: the LLM's list, every entry with isRecurring: false
Stage2Accept(categorized) ==
  [i \in 1..Len(categorized) |-> [categorized[i] EXCEPT !.isRecurring = FALSE]]

stage2_CategorizeAndClean(rawTransactions, answer) ==
  IF answer.kind = "ok" THEN Stage2Accept(answer.payload)
  ELSE Stage2Fallback(rawTransactions)

\* stage 3, try branch: the locally computed breakdown is used only when the
\* answer carries no categoryTotals
Stage3Accept(es, patterns) ==
  LET recurringExpenses ==
        [i \in 1..Len(patterns.recurringTransactionIndices) |->
           IF patterns.recurringTransactionIndices[i] + 1 \in DOMAIN es
           THEN [es[patterns.recurringTransactionIndices[i] + 1]
                   EXCEPT !.isRecurring = TRUE]
           ELSE UndefinedExpense]
  IN [recurringExpenses |-> recurringExpenses,
      topMerchants |-> patterns.topMerchants,
      recurringCount |-> Len(recurringExpenses),
      categoryBreakdown |->
        IF patterns.categoryTotals # <<>> THEN patterns.categoryTotals[1]
        ELSE CategoryBreakdownOf(es)]

\* stage 3, catch branch
Stage3Fallback(es) ==
  [recurringExpenses |-> <<>>,
   topMerchants |-> <<>>,
   recurringCount |-> 0,
   categoryBreakdown |-> CategoryBreakdownOf(es)]

stage3_DetectPatterns(es, answer) ==
  IF answer.kind = "ok" THEN Stage3Accept(es, answer.payload)
  ELSE Stage3Fallback(es)

\* stage 4, catch branch
Stage4Fallback ==
  [diningOutFrequency |-> "occasionally", hasKids |-> FALSE, hasDebt |-> FALSE,
   transportMode |-> "mixed", subscriptionCount |-> 3, lifestyle |-> "moderate"]

\* totalSpending / Math.max(monthCount, 1), monthCount being
\* calculateMonthSpan: 0 for no expense, else max(daysDiff / 30, 1)
AverageMonthlySpend(es) ==
  Frac(SumSeq(Amounts(es)) * 30, Max2(DaysDiff(es), 30))

\* stage 5, catch branch; the multiplier is 2.0, 1.3 or 1.6
Stage5Fallback(es, lifestyle) ==
  LET avg == AverageMonthlySpend(es)
      tenths == IF lifestyle.lifestyle = "frugal" THEN 20
                ELSE IF lifestyle.lifestyle = "luxury" THEN 13 ELSE 16
  IN [estimatedIncome |-> Frac(avg.num * tenths, avg.den * 10),
      savingsRate |-> IF lifestyle.lifestyle = "frugal" THEN 35 ELSE 20,
      emergencyFundMonths |-> 0,
      location |-> ""]

\* new Date(Math.min(...dates)).toISOString() throws a RangeError when the
\* list is empty (Math.min() is Infinity) or holds an unparseable date (NaN)
CombineThrows(es) ==
  es = <<>> \/ \E i \in 1..Len(es) : es[i].date = InvalidDate

RecurringId(e) == <<e.merchantName, e.amount>>

\* combineResults, when it does not throw
combineResults(es, patterns, lifestyle, financial) ==
  LET dates == [i \in 1..Len(es) |-> es[i].date]
      recurringIds ==
        {RecurringId(patterns.recurringExpenses[i]) :
           i \in 1..Len(patterns.recurringExpenses)}
      finalExpenses ==
        [i \in 1..Len(es) |->
           [es[i] EXCEPT !.isRecurring = RecurringId(es[i]) \in recurringIds]]
      md == [totalExpenses |-> SumSeq(Amounts(es)),
             periodStart |-> MinSeq(dates),
             periodEnd |-> MaxSeq(dates),
             categoryBreakdown |-> patterns.categoryBreakdown,
             topMerchants |-> patterns.topMerchants,
             recurringExpenses |-> patterns.recurringExpenses,
             averageMonthlySpend |-> AverageMonthlySpend(es),
             insights |->
               [diningOutFrequency |-> lifestyle.diningOutFrequency,
                hasKids |-> lifestyle.hasKids,
                hasDebt |-> lifestyle.hasDebt,
                estimatedIncome |-> financial.estimatedIncome,
                savingsRate |-> financial.savingsRate,
                lifestyle |-> lifestyle.lifestyle,
                transportMode |-> lifestyle.transportMode,
                subscriptionCount |-> lifestyle.subscriptionCount,
                emergencyFundMonths |-> financial.emergencyFundMonths]]
  IN Resolved(finalExpenses, md, "combineResults")

----------------------------------------------------------------------------
(* The parsers: inputs *)

LineRent == <<DateF(Day(2024, 3, 1)), TextF("Rent"), NumF(8000)>>
LineCafe == <<DateF(Day(2024, 1, 20)), TextF("Cafe"), NumF(-30)>>
LineHeader == <<TextF("Date"), TextF("Description"), TextF("Amount")>>
LineNoAmount == <<DateF(Day(2024, 1, 5)), TextF("Lunch"), TextF("n/a")>>
LineNote == <<TextF("exported by bank")>>
LineBlank == <<>>
LineZero == <<DateF(Day(2024, 1, 7)), TextF("Refund"), NumF(0)>>

LineSample ==
  {LineRent, LineCafe, LineHeader, LineNoAmount, LineNote, LineBlank, LineZero}

\* longest file, in lines
MaxLines == 2

Files == SeqsUpTo(LineSample, MaxLines)

RawRent ==
  [date |-> DateF(Day(2024, 3, 1)), amount |-> NumF(8000), description |-> "Rent"]
RawCafe ==
  [date |-> TextF("yesterday"), amount |-> NumF(-30), description |-> "Cafe"]

Stage1Answers ==
  FailedAnswers \cup {Ok(raw) : raw \in {<<>>, <<RawRent>>, <<RawCafe, RawRent>>}}

Stage2Answers == FailedAnswers \cup {Ok(es) : es \in LlmExpenseLists}

Stage3Answers ==
  FailedAnswers
  \cup {Ok([recurringTransactionIndices |-> idx, topMerchants |-> <<>>,
            categoryTotals |-> totals]) :
          idx \in {<<>>, <<0>>},
          totals \in {<<>>, <<("Housing" :> 8000)>>, <<("Other" :> 1)>>}}

Stage4Answers ==
  FailedAnswers
  \cup {Ok([diningOutFrequency |-> "rarely", hasKids |-> TRUE, hasDebt |-> TRUE,
            transportMode |-> "public", subscriptionCount |-> 1,
            lifestyle |-> "frugal"])}

Stage5Answers ==
  FailedAnswers
  \cup {Ok([estimatedIncome |-> Frac(12000, 1), savingsRate |-> 25,
            emergencyFundMonths |-> 2, location |-> "Shanghai"])}

----------------------------------------------------------------------------
(* parseExpenseFile as a state machine: one action per resumption.  The  *)
(* multi-stage parser runs with an onStageUpdate callback registered;    *)
(* updates is the sequence of its calls.                                 *)

NoMemory ==
  /\ input = <<>>
  /\ expenses = <<>>
  /\ metadata = [hasKids |-> FALSE]
  /\ out = [a \in Analyses |-> <<>>]
  /\ profiles = <<>>
  /\ memories = <<>>
  /\ storage = <<>>

EmptyWork ==
  [raw |-> <<>>, expenses |-> <<>>,
   patterns |-> Stage3Fallback(<<>>), lifestyle |-> Stage4Fallback]

InitParse ==
  /\ parser \in {"basic", "multi"}
  /\ file \in Files
  /\ pc = "idle"
  /\ updates = <<>>
  /\ work = EmptyWork
  /\ settled = <<>>
  /\ NoMemory

\* parseExpenseFile(file) is called: it awaits readFileContent
ParseExpenseFile ==
  /\ pc = "idle"
  /\ pc' = "reading"
  /\ UNCHANGED <<parser, file, updates, work, settled>>
  /\ UNCHANGED memVars

\* reader.onerror: the promise rejects
FileReadError ==
  /\ pc = "reading"
  /\ pc' = "done"
  /\ settled' = Rejected("Failed to read file")
  /\ UNCHANGED <<parser, file, updates, work>>
  /\ UNCHANGED memVars

\* reader.onload: the call goes on to its first LLM request
FileLoaded ==
  /\ pc = "reading"
  /\ IF parser = "basic"
     THEN pc' = "llm" /\ updates' = updates
     ELSE pc' = "stage1" /\ updates' = Append(updates, <<1, "processing">>)
  /\ UNCHANGED <<parser, file, work, settled>>
  /\ UNCHANGED memVars

\* ExpenseParserService: the LLM request settles and the call returns
BasicAnswer(answer) ==
  /\ pc = "llm"
  /\ pc' = "done"
  /\ settled' = BasicOutcome(file, answer)
  /\ UNCHANGED <<parser, file, updates, work>>
  /\ UNCHANGED memVars

\* stage 1 settles: a failure rejects the call, and so does the TypeError of
\* stage1Result.data.length on a null answer
Stage1Answer(answer) ==
  /\ pc = "stage1"
  /\ IF answer.kind = "ok"
     THEN /\ work' = [work EXCEPT !.raw = answer.payload]
          /\ updates' = updates \o <<<<1, "completed">>, <<2, "processing">>>>
          /\ pc' = "stage2"
          /\ settled' = settled
     ELSE /\ settled' = IF answer.kind = "null" THEN Rejected("TypeError")
                        ELSE Rejected("Failed to extract basic transactions")
          /\ pc' = "done"
          /\ UNCHANGED <<work, updates>>
  /\ UNCHANGED <<parser, file>>
  /\ UNCHANGED memVars

Stage2Answer(answer) ==
  /\ pc = "stage2"
  /\ work' = [work EXCEPT !.expenses = stage2_CategorizeAndClean(work.raw, answer)]
  /\ updates' = updates \o <<<<2, "completed">>, <<3, "processing">>>>
  /\ pc' = "stage3"
  /\ UNCHANGED <<parser, file, settled>>
  /\ UNCHANGED memVars

Stage3Answer(answer) ==
  /\ pc = "stage3"
  /\ work' = [work EXCEPT !.patterns = stage3_DetectPatterns(work.expenses, answer)]
  /\ updates' = updates \o <<<<3, "completed">>, <<4, "processing">>>>
  /\ pc' = "stage4"
  /\ UNCHANGED <<parser, file, settled>>
  /\ UNCHANGED memVars

\* stage 4 with a catch that rethrows, as the catch of stage 1 does
Stage4AnswerRethrows(answer) ==
  /\ pc = "stage4"
  /\ IF answer.kind # "ok"
     THEN /\ settled' = Rejected("TypeError")
          /\ pc' = "done"
          /\ UNCHANGED <<work, updates>>
     ELSE /\ work' = [work EXCEPT !.lifestyle = answer.payload]
          /\ updates' = updates \o <<<<4, "completed">>, <<5, "processing">>>>
          /\ pc' = "stage5"
          /\ settled' = settled
  /\ UNCHANGED <<parser, file>>
  /\ UNCHANGED memVars

\* stage 4 settles; a null answer is returned as data and
\* stage4Result.data.lifestyle then throws a TypeError
Stage4Answer(answer) ==
  /\ pc = "stage4"
  /\ IF answer.kind = "null"
     THEN /\ settled' = Rejected("TypeError")
          /\ pc' = "done"
          /\ UNCHANGED <<work, updates>>
     ELSE /\ work' = [work EXCEPT !.lifestyle =
                         IF answer.kind = "ok" THEN answer.payload
                         ELSE Stage4Fallback]
          /\ updates' = updates \o <<<<4, "completed">>, <<5, "processing">>>>
          /\ pc' = "stage5"
          /\ settled' = settled
  /\ UNCHANGED <<parser, file>>
  /\ UNCHANGED memVars

\* stage 5 settles, and the call runs on through combineResults
Stage5Answer(answer) ==
  /\ pc = "stage5"
  /\ pc' = "done"
  /\ IF answer.kind = "null"
     THEN settled' = Rejected("TypeError") /\ updates' = updates
     ELSE /\ updates' = Append(updates, <<5, "completed">>)
          /\ settled' =
               IF CombineThrows(work.expenses) THEN Rejected("RangeError")
               ELSE combineResults(
                      work.expenses, work.patterns, work.lifestyle,
                      IF answer.kind = "ok" THEN answer.payload
                      ELSE Stage5Fallback(work.expenses, work.lifestyle))
  /\ UNCHANGED <<parser, file, work>>
  /\ UNCHANGED memVars

NextParse ==
  \/ ParseExpenseFile
  \/ FileReadError
  \/ FileLoaded
  \/ \E answer \in BasicAnswers : BasicAnswer(answer)
  \/ \E answer \in Stage1Answers : Stage1Answer(answer)
  \/ \E answer \in Stage2Answers : Stage2Answer(answer)
  \/ \E answer \in Stage3Answers : Stage3Answer(answer)
  \/ \E answer \in Stage4Answers : Stage4Answer(answer)
  \/ \E answer \in Stage5Answers : Stage5Answer(answer)

SpecParse == InitParse /\ [][NextParse]_vars

----------------------------------------------------------------------------
(* Properties of the parsers *)

Settled == settled[1]

\* C1: every metadata the parsers build themselves (generateBasicMetadata,
\* and stage 3 followed by combineResults) has a category breakdown whose
\* values add up to totalExpenses.
C1_BreakdownSumsToTotal ==
  (settled # <<>> /\ Settled.status = "resolved"
     /\ Settled.source \in {"generateBasicMetadata", "combineResults"})
  => SumValues(Settled.metadata.categoryBreakdown)
       = Settled.metadata.totalExpenses

\* the rejection of a file without transactions
NoValidTransactions(s) ==
  /\ s # <<>>
  /\ s[1].status = "rejected"
  /\ s[1].error \in {"Unable to parse expense file", "No valid transactions found"}

\* the transactions ExpenseParserService has after the LLM answer
BasicYield(content, answer) ==
  IF answer.kind = "ok" THEN answer.payload.expenses
  ELSE BasicCSVExpenses(content)

\* C2: a parse that yields zero valid transactions ends in the
\* no-valid-transactions failure, in both parsers: it neither returns an
\* empty list nor fails with another error.
C2_ZeroTransactionsFail ==
  [][/\ \A answer \in BasicAnswers :
          (BasicAnswer(answer) /\ BasicYield(file, answer) = <<>>)
          => NoValidTransactions(settled')
     /\ \A answer \in Stage5Answers :
          (Stage5Answer(answer) /\ work.expenses = <<>>)
          => NoValidTransactions(settled')]_vars

WellFormedLine(line) ==
  Len(line) >= 3 /\ line[1].kind = "date" /\ line[3].kind = "number"

HasWellFormedLine(content) ==
  \E i \in 1..Len(content) : WellFormedLine(content[i])

\* a step that takes a failed LLM answer does not reject the call
FallsBack == settled' = <<>> \/ settled'[1].status = "resolved"

\* C3: when the LLM call fails or answers with something that is not JSON
\* of the expected shape, at any point of either parser, the call does not
\* fail for it but goes on with local fallback logic, provided the file has
\* a well-formed transaction line.
C3_LlmFailureFallsBack ==
  [][HasWellFormedLine(file) =>
       \A answer \in FailedAnswers :
         /\ BasicAnswer(answer) => FallsBack
         /\ Stage1Answer(answer) => FallsBack
         /\ Stage2Answer(answer) => FallsBack
         /\ Stage3Answer(answer) => FallsBack
         /\ Stage4Answer(answer) => FallsBack
         /\ Stage5Answer(answer) => FallsBack]_vars

----------------------------------------------------------------------------
(* MemoryService: the detectors on short lists and their divisions *)

\* calculateCompletenessScore: 100 less the deductions, the last of them
\* (missingMerchants / expenses.length) * 20, which is 0 / 0 for no expense
calculateCompletenessScore(es, md) ==
  LET base == 100
              - (IF md.hasLocation THEN 0 ELSE 5)
              - (IF Len(es) < 50 THEN 20 ELSE 0)
              - (IF Len(es) < 100 THEN 10 ELSE 0)
              - (IF \E i \in 1..Len(es) : es[i].category = "Housing" THEN 0 ELSE 10)
              - (IF \E i \in 1..Len(es) : es[i].category = "Food & Dining"
                 THEN 0 ELSE 10)
      missingMerchants == Len(SelectSeq(es, LAMBDA e : e.merchantName = ""))
      num == base * Len(es) - 20 * missingMerchants
  IN IF es = <<>> THEN NaN
     ELSE IF num < 0 THEN Frac(0, 1) ELSE Frac(num, Len(es))

\* ten times metadata.insights.estimatedIncome || avgMonthlySpend * 1.4
EstimatedIncomeTenths(md) ==
  IF md.estimatedIncome # 0 THEN 10 * md.estimatedIncome
  ELSE 14 * md.averageMonthlySpend

\* monthlySpend / income
SpendingRatio(md) ==
  IF EstimatedIncomeTenths(md) = 0 /\ md.averageMonthlySpend = 0 THEN NaN
  ELSE Frac(10 * md.averageMonthlySpend, EstimatedIncomeTenths(md))

\* the comparisons with 0.6, 0.8, 0.95, all false for NaN
analyzeSpendingPersonality(md) ==
  LET ratio == SpendingRatio(md)
  IN IF ratio = NaN THEN "impulsive"
     ELSE IF 10 * ratio.num < 6 * ratio.den THEN "frugal"
     ELSE IF 10 * ratio.num < 8 * ratio.den THEN "balanced"
     ELSE IF 100 * ratio.num < 95 * ratio.den THEN "generous"
     ELSE "impulsive"

Detectors == Analyses \cup {"completeness", "personality"}

\* the values each detector divides by (constant divisors left out)
Denominators(a, es, md) ==
  LET keys == KeysInOrder([i \in 1..Len(es) |-> MerchantKey(es[i])], {})
      groups == {GroupOf(es, keys[i]) : i \in 1..Len(keys)}
  IN CASE a = "merchants" ->
            \* pattern.totalSpent / pattern.transactionCount
            {Len(g) : g \in {h \in groups : MerchantKey(h[1]) # ""}}
       [] a = "recurring" ->
            \* amounts.length, and intervals.length of the similar groups
            {Len(g) : g \in {h \in groups : Len(h) >= 2}}
            \cup {Len(g) - 1 :
                    g \in {h \in groups : Len(h) >= 2 /\ SimilarAmounts(Amounts(h))}}
       [] a = "seasonal" ->
            \* monthlySpending.size
            {Cardinality({MonthKey(es[i]) : i \in 1..Len(es)})}
       [] a = "lifestyle" ->
            \* Math.max(this.calculateTimeSpan(expenses), 1), in days
            {Max2(DaysDiff(es), 30)}
       [] a = "trend" ->
            \* firstThird.length, lastThird.length
            IF Len(es) < TrendMinimum THEN {} ELSE {Len(es) \div 3}
       [] a = "impulse" ->
            \* dateGroups.size
            {Cardinality({es[i].date : i \in 1..Len(es)})}
       [] a = "anomalies" ->
            \* amounts.length
            {Len(es)}
       [] a = "completeness" ->
            \* expenses.length
            {Len(es)}
       [] a = "personality" ->
            \* income
            {EstimatedIncomeTenths(md)}

\* longest list handed to the detectors
MaxDetect == 2

CafeVisit ==
  [Tx(Day(2024, 1, 20), "Latte", 30, "Food & Dining") EXCEPT !.merchantName = "Cafe"]

DetectorLists == SeqsUpTo({Rent1, Gym3, CafeVisit}, MaxDetect)

DetectorMetadatas ==
  {[hasKids |-> FALSE, hasLocation |-> loc,
    averageMonthlySpend |-> m[1], estimatedIncome |-> m[2]] :
     loc \in BOOLEAN, m \in {<<0, 0>>, <<5000, 0>>, <<5000, 8000>>}}

InitDetectors ==
  /\ input \in DetectorLists
  /\ expenses = input
  /\ metadata \in DetectorMetadatas
  /\ out = [a \in Detectors |-> <<>>]
  /\ profiles = <<>>
  /\ memories = <<>>
  /\ storage = <<>>
  /\ NoParse

RunCalculateCompletenessScore ==
  Run("completeness", calculateCompletenessScore(expenses, metadata), expenses)

RunAnalyzeSpendingPersonality ==
  Run("personality", analyzeSpendingPersonality(metadata), expenses)

NextDetectors ==
  \/ NextAnalyses
  \/ RunCalculateCompletenessScore
  \/ RunAnalyzeSpendingPersonality

SpecDetectors == InitDetectors /\ [][NextDetectors]_vars

\* C11: on an empty or one-element list every detector returns an empty list
\* or a well-defined value: the impulse score and the completeness score are
\* numbers of 0..100, not NaN.
C11_DetectorsTotalOnShortLists ==
  Len(input) <= 1 =>
    /\ out["impulse"] # <<>> =>
         /\ out["impulse"][1][1] # NaN
         /\ out["impulse"][1][1].num <= 100 * out["impulse"][1][1].den
    /\ out["completeness"] # <<>> =>
         /\ out["completeness"][1] # NaN
         /\ out["completeness"][1].num <= 100 * out["completeness"][1].den

\* C12: no detector divides by zero, whatever the list and the metadata.
C12_NoDivisionByZero ==
  \A a \in Detectors :
    out[a] # <<>> => 0 \notin Denominators(a, input, metadata)

----------------------------------------------------------------------------
(* Further properties of the parsers *)

\* C13: every transaction parseExpenseFile returns, from either parser and on
\* every path, has a non-negative amount.
C13_AmountsNonNegative ==
  (settled # <<>> /\ Settled.status = "resolved") =>
    \A i \in DOMAIN Settled.expenses : Settled.expenses[i].amount >= 0

\* The category the keyword lists give a description.  Of the keyword lists
\* only 'rent' (Housing) has a keyword that occurs in the texts of the model.
KeywordCategory(description) ==
  IF Includes(description, "rent") THEN "Housing" ELSE "Other"

CategorizedByKeyword(es) ==
  \A i \in DOMAIN es : es[i].category = KeywordCategory(es[i].description)

\* C14: when the LLM categorization is not available, the fallback gives
\* each transaction the first category with a keyword in its description,
\* and 'Other' only when there is none.
C14_FallbackCategorizesByKeyword ==
  [][\A answer \in FailedAnswers :
       /\ (BasicAnswer(answer) /\ settled'[1].status = "resolved")
          => CategorizedByKeyword(settled'[1].expenses)
       /\ Stage2Answer(answer) => CategorizedByKeyword(work'.expenses)]_vars

\* C15: the list MultiStageExpenseParser returns has one entry per
\* transaction extracted in stage 1.
C15_OneExpensePerExtracted ==
  (parser = "multi" /\ settled # <<>> /\ Settled.status = "resolved")
  => Len(Settled.expenses) = Len(work.raw)

----------------------------------------------------------------------------
(* Further properties of identifyRecurringExpenses and detectAnomalies *)

\* the latest date among the transactions of merchant key k
LatestOf(k) ==
  LET ds == {input[i].date : i \in Members(k)}
  IN CHOOSE d \in ds : \A e \in ds : e <= d

MonthIndex(n) == 12 * getFullYear(n) + getMonth(n)

\* next is last advanced by one period of the bucket
OnePeriodLater(last, frequency, next) ==
  CASE frequency = "weekly" -> next = last + 7
    [] frequency = "biweekly" -> next = last + 14
    [] frequency = "monthly" -> MonthIndex(next) = MonthIndex(last) + 1
    [] frequency = "quarterly" -> MonthIndex(next) = MonthIndex(last) + 3
    [] frequency = "annual" ->
         MonthIndex(next) = MonthIndex(last) + 12 /\ getDate(next) = getDate(last)

\* C16: whatever the order of the list, the nextDueDate of every reported
\* group is the latest date of the group advanced by one period of its
\* bucket.
C16_NextDueFromLatestDate ==
  out["recurring"] # <<>> =>
    \A i \in DOMAIN Recurring :
      OnePeriodLater(LatestOf(Recurring[i].name), Recurring[i].frequency,
                     Recurring[i].nextDueDate)

\* detectAnomalies alone, over lists with gaps and over the cluster whose
\* dates lie within 10 days
InitGaps ==
  InitMemory(SeqsUpTo(Sample, MaxLen) \cup {Cluster(MaxCluster)},
             {[hasKids |-> FALSE]})

SpecGaps == InitGaps /\ [][RunDetectAnomalies]_vars

Missing == SelectSeq(Anomalies, LAMBDA a : a.type = "missing-data")

InputDates == {input[i].date : i \in 1..Len(input)}

\* the pairs of dates of the list that follow each other and lie more than
\* 14 days apart
LongGaps ==
  {p \in InputDates \X InputDates :
     /\ p[2] - p[1] > 14
     /\ ~\E d \in InputDates : p[1] < d /\ d < p[2]}

\* C17: one 'missing-data' anomaly per pair of date-consecutive transactions
\* more than 14 days apart, dated at the earlier one and stating the days of
\* the gap; none for a gap of 14 days or less, none at all for a list whose
\* dates lie within 10 days.
C17_MissingDataPerLongGap ==
  out["anomalies"] # <<>> =>
    /\ Len(Missing) = Cardinality(LongGaps)
    /\ \A i \in DOMAIN Missing :
         /\ <<Missing[i].date, Missing[i].date + Missing[i].amount>> \in LongGaps
         /\ Missing[i].resolved = FALSE
    /\ \A i, j \in DOMAIN Missing : Missing[i].date = Missing[j].date => i = j
    /\ (\A d, e \in InputDates : e - d <= 10) => Missing = <<>>

\* a list with a gap of 17 days, reported, and a gap of exactly 14 days, not
\* reported
C17_Witness ==
  /\ out["anomalies"] # <<>>
  /\ input = <<Rent2, Rent1, Gym2>>
  /\ Len(Missing) = 1
  /\ Missing[1].date = Gym2.date
  /\ Missing[1].amount = 17

----------------------------------------------------------------------------
(* Properties of the fallback CSV parsers *)

\* a line with a third field that parses as a number other than zero
ContributesAmount(line) ==
  Len(line) >= 3 /\ ParseFloat(line[3]) \notin {<<>>, <<0>>}

\* C18: parseBasicCSV produces one transaction for each line that
\* contributes a valid, non-zero amount and none for the other lines, which
\* it skips without an error.
C18_TransactionIffValidAmount ==
  [][\A answer \in FailedAnswers :
       (BasicAnswer(answer) /\ settled'[1].status = "resolved")
       => Len(settled'[1].expenses) = Len(SelectSeq(file, ContributesAmount))]_vars

----------------------------------------------------------------------------
(* quickParseCSV *)

\* firstLine.includes('date') || .includes('amount') || .includes('description')
QuickIsHeader(line) ==
  \E i \in 1..Len(line) :
    line[i].kind = "text" /\ line[i].text \in {"Date", "Amount", "Description"}

\* a slip QuickAmount could hold: the first numeric field wins
RECURSIVE QuickAmountFirst(_, _)
QuickAmountFirst(parts, amount) ==
  IF parts = <<>> THEN amount
  ELSE LET parsedAmount == ParseFloat(Head(parts))
       IN QuickAmountFirst(
            Tail(parts),
            IF amount = 0 /\ parsedAmount # <<>> /\ parsedAmount[1] # 0
            THEN Abs(parsedAmount[1]) ELSE amount)

\* the loop over the parts of a line, for `amount`: every part that parses
\* as a number other than 0 overwrites it
RECURSIVE QuickAmount(_, _)
QuickAmount(parts, amount) ==
  IF parts = <<>> THEN amount
  ELSE LET parsedAmount == ParseFloat(Head(parts))
       IN QuickAmount(
            Tail(parts),
            IF parsedAmount # <<>> /\ parsedAmount[1] # 0
            THEN Abs(parsedAmount[1]) ELSE amount)

\* the dates a line pushes to `dates`, in order: its parts that match the
\* date patterns
QuickDates(parts) ==
  LET found == SelectSeq(parts, LAMBDA part : part.kind = "date")
  IN [i \in 1..Len(found) |-> found[i].num]

\* part.length > 3, for the texts of the model
LongerThan3(text) == text \notin {"", "n/a", "Bus"}

\* the loop over the parts of a line, for `description`: the last part that
\* is no number, longer than 3 characters and met before any date
RECURSIVE QuickDescription(_, _, _)
QuickDescription(parts, seenDate, description) ==
  IF parts = <<>> THEN description
  ELSE LET part == Head(parts)
           dated == seenDate \/ part.kind = "date"
       IN QuickDescription(
            Tail(parts), dated,
            IF ParseFloat(part) = <<>> /\ ~dated /\ part.kind = "text"
               /\ LongerThan3(part.text)
            THEN part.text ELSE description)

\* what one line adds: its dates, and its transaction if amount > 0.
\* A date of <<>> stands for the text used when the line has no date, a
\* description of "" for the text used when it has no description.
QuickLine(parts) ==
  IF Len(parts) < 2 THEN [dates |-> <<>>, entries |-> <<>>]
  ELSE [dates |-> QuickDates(parts),
        entries |->
          IF QuickAmount(parts, 0) > 0
          THEN << [date |-> IF QuickDates(parts) = <<>> THEN <<>>
                            ELSE <<QuickDates(parts)[Len(QuickDates(parts))]>>,
                   description |-> QuickDescription(parts, FALSE, ""),
                   amount |-> QuickAmount(parts, 0)] >>
          ELSE <<>>]

RECURSIVE QuickLines(_)
QuickLines(lines) ==
  IF lines = <<>> THEN [dates |-> <<>>, entries |-> <<>>]
  ELSE LET first == QuickLine(Head(lines))
           rest == QuickLines(Tail(lines))
       IN [dates |-> first.dates \o rest.dates,
           entries |-> first.entries \o rest.entries]

QuickNull ==
  [status |-> "null", totalAmount |-> 0, transactionCount |-> 0,
   dateRange |-> <<>>, averageTransaction |-> NaN, preview |-> <<>>]

\* quickParseCSV(content); at most 100 lines after the header are read
quickParseCSV(content) ==
  LET lines == NonBlank(content)
      data == IF lines # <<>> /\ QuickIsHeader(lines[1]) THEN Tail(lines) ELSE lines
      read == QuickLines(SubSeq(data, 1, Min2(Len(data), 100)))
      amounts == [i \in 1..Len(read.entries) |-> read.entries[i].amount]
      dates == SortNums(read.dates)
  IN IF Len(lines) < 2 \/ read.entries = <<>> THEN QuickNull
     ELSE [status |-> "result",
           totalAmount |-> SumSeq(amounts),
           transactionCount |-> Len(amounts),
           dateRange |-> IF dates = <<>> THEN <<>>
                         ELSE <<dates[1], dates[Len(dates)]>>,
           averageTransaction |-> Frac(SumSeq(amounts), Len(amounts)),
           preview |-> SubSeq(read.entries, 1, Min2(5, Len(read.entries)))]

LineTwoAmounts == <<NumF(12), TextF("Taxi ride"), NumF(-45)>>
LineDateLast == <<TextF("Bus"), NumF(25), DateF(Day(2024, 1, 9))>>

QuickLineSample == LineSample \cup {LineTwoAmounts, LineDateLast}

QuickFiles == SeqsUpTo(QuickLineSample, MaxLines)

InitQuick ==
  /\ parser = "quick"
  /\ file \in QuickFiles
  /\ pc = "idle"
  /\ updates = <<>>
  /\ work = EmptyWork
  /\ settled = <<>>
  /\ NoMemory

QuickParseCSV ==
  /\ pc = "idle"
  /\ pc' = "done"
  /\ settled' = <<quickParseCSV(file)>>
  /\ UNCHANGED <<parser, file, updates, work>>
  /\ UNCHANGED memVars

SpecQuick == InitQuick /\ [][QuickParseCSV]_vars

\* the positions of a line whose field parses as a number other than 0
NumericPositions(line) ==
  {j \in 1..Len(line) : ParseFloat(line[j]) \notin {<<>>, <<0>>}}

\* the absolute value of the last such field of the line
LastAmount(line) ==
  LET j == CHOOSE k \in NumericPositions(line) :
             \A m \in NumericPositions(line) : m <= k
  IN Abs(ParseFloat(line[j])[1])

\* the lines of the file that quickParseCSV turns into transactions
QuickDataLines ==
  LET lines == NonBlank(file)
      data == IF lines # <<>> /\ QuickIsHeader(lines[1]) THEN Tail(lines) ELSE lines
  IN SelectSeq(data, LAMBDA line : Len(line) >= 2 /\ NumericPositions(line) # {})

\* C19: the amount quickParseCSV takes for a line is the absolute value of
\* the last field of the line that parses as a number other than zero.
C19_LastNumericFieldIsAmount ==
  (settled # <<>> /\ Settled.status = "result") =>
    /\ Len(Settled.preview) = Len(QuickDataLines)
    /\ \A k \in DOMAIN Settled.preview :
         Settled.preview[k].amount = LastAmount(QuickDataLines[k])

\* a line with the numbers 12 and -45, in that order, parsed to 45
C19_Witness ==
  /\ settled # <<>>
  /\ Settled.status = "result"
  /\ file = <<LineRent, LineTwoAmounts>>
  /\ Settled.preview[2].amount = 45

----------------------------------------------------------------------------
(* analyzeMerchantPatterns and topMerchants *)

\* most merchants of a list
MaxMerchants == 12

ShopNames ==
  <<"Shop A", "Shop B", "Shop C", "Shop D", "Shop E", "Shop F", "Shop G",
    "Shop H", "Shop I", "Shop J", "Shop K", "Shop L", "Shop M", "Shop N">>

\* one purchase at each of the first n shops, the amounts in an order set by
\* k, and a second purchase at the first shop
ShopList(n, k) ==
  [i \in 1..n |->
     Tx(Day(2024, 1, 1) + i, ShopNames[i], ((i * k) % 17) * 10 + 5, "Shopping")]
  \o (IF n > 1 THEN <<Tx(Day(2024, 3, 1), ShopNames[1], 60, "Shopping")>>
      ELSE <<>>)

ShopLists == {ShopList(n, k) : n \in 0..MaxMerchants, k \in 1..4}

InitTop == InitMemory(ShopLists, {[hasKids |-> FALSE]})

NextTop == Next \/ RunAnalyzeMerchantPatterns

SpecTop == InitTop /\ [][NextTop]_vars

SortedBySpent(patterns) ==
  \A i, j \in DOMAIN patterns :
    i < j => patterns[i].totalSpent >= patterns[j].totalSpent

PatternNames(patterns) == {patterns[i].name : i \in DOMAIN patterns}

\* C20: analyzeMerchantPatterns returns the merchants by descending
\* totalSpent, and topMerchants of the profile are the first 10 of them: at
\* most 10, and no merchant left out has spent more than one included.
C20_TopMerchantsByTotalSpent ==
  /\ out["merchants"] # <<>> =>
       /\ SortedBySpent(out["merchants"][1])
       /\ PatternNames(out["merchants"][1]) = InputKeys
       /\ Len(out["merchants"][1]) = Cardinality(InputKeys)
       /\ \A i \in DOMAIN out["merchants"][1] :
            out["merchants"][1][i].totalSpent
              = MemberTotal(out["merchants"][1][i].name)
  /\ \A r \in DOMAIN profiles :
       LET top == profiles[r].topMerchants
       IN /\ Len(top) = Min2(10, Cardinality(InputKeys))
          /\ SortedBySpent(top)
          /\ PatternNames(top) \subseteq InputKeys
          /\ \A i \in DOMAIN top : top[i].totalSpent = MemberTotal(top[i].name)
          /\ \A k \in InputKeys \ PatternNames(top) :
               \A i \in DOMAIN top : MemberTotal(k) <= top[i].totalSpent

\* a list of 12 merchants, analysed, and a profile with 10 top merchants
C20_Witness ==
  /\ Cardinality(InputKeys) = 12
  /\ out["merchants"] # <<>>
  /\ Len(out["merchants"][1]) = 12
  /\ profiles # <<>>
  /\ Len(profiles[1].topMerchants) = 10

----------------------------------------------------------------------------
(* Seasonal patterns *)

\* a refund, as the LLM branch of stage 2 hands it over (negative amount)
Refund == Tx(Day(2024, 2, 10), "Refund", -500, "Shopping")

SeasonalLists == SeqsUpTo(Sample \cup {Refund}, MaxShared)

\* detectSeasonalPatterns alone
InitSeasonal == InitMemory(SeasonalLists, {[hasKids |-> FALSE]})

SpecSeasonal == InitSeasonal /\ [][RunDetectSeasonalPatterns]_vars

Seasonal == out["seasonal"][1]

\* the month buckets of the list handed over, and their totals
Buckets == {MonthKey(input[i]) : i \in 1..Len(input)}

BucketTotal(m) ==
  SumSeq(Amounts(SelectSeq(input, LAMBDA e : MonthKey(e) = m)))

\* the sum of all bucket totals
GrandTotal == SumSeq(Amounts(input))

\* bucket total > 1.2 * (GrandTotal / number of buckets)
AboveMargin(m) == 5 * BucketTotal(m) * Cardinality(Buckets) > 6 * GrandTotal

PatternsPerBucket ==
  /\ {Seasonal[i].period : i \in DOMAIN Seasonal} = {m \in Buckets : AboveMargin(m)}
  /\ \A i, j \in DOMAIN Seasonal : Seasonal[i].period = Seasonal[j].period => i = j
  /\ \A i \in DOMAIN Seasonal :
       /\ Seasonal[i].averageSpend = BucketTotal(Seasonal[i].period)
       /\ Seasonal[i].variance.num * Cardinality(Buckets)
            = (BucketTotal(Seasonal[i].period) * Cardinality(Buckets) - GrandTotal)
                * Seasonal[i].variance.den
       /\ Seasonal[i].variance.den > 0

PositiveVariance ==
  /\ \A i \in DOMAIN Seasonal : Seasonal[i].variance.num > 0
  /\ Cardinality(Buckets) <= 1 => Seasonal = <<>>

----------------------------------------------------------------------------
(* Spending trend *)

\* longest tail of sample transactions after the small purchases
MaxTail == 2

Tea == Tx(Day(2024, 2, 20), "Tea", 21, "Food & Dining")

\* lists of 27 to 33 transactions, the small purchases latest first
ThirdsLists ==
  {Pad(n) \o tail :
     n \in (TrendMinimum - 3)..(TrendMinimum + 1),
     tail \in SeqsUpTo(GymSample \cup {Tea}, MaxTail)}

InitThirds == InitMemory(ThirdsLists, {[hasKids |-> FALSE]})

SpecThirds == InitThirds /\ [][RunCalculateSpendingTrend]_vars

\* place of input[i] in date order, equal dates in the order of the list
DateRank(i) ==
  Cardinality({j \in 1..Len(input) :
                 \/ input[j].date < input[i].date
                 \/ input[j].date = input[i].date /\ j < i}) + 1

\* sum of the amounts whose place in date order is in lo..hi
RankedSum(lo, hi) ==
  SumSeq([i \in 1..Len(input) |->
            IF DateRank(i) \in lo..hi THEN input[i].amount ELSE 0])

FirstThirdSum == RankedSum(1, Len(input) \div 3)

LastThirdSum == RankedSum(Len(input) - (Len(input) \div 3) + 1, Len(input))

C22_WitnessIncreasing == out["trend"] = <<"increasing">>

C22_WitnessStable == out["trend"] = <<"stable">> /\ Len(input) >= 30

----------------------------------------------------------------------------
(* Impulse score *)

\* longest list of purchases for the impulse score
MaxImpulse == 5

Snack == Tx(Day(2024, 1, 10), "Snack", 20, "Food & Dining")
Pill == Tx(Day(2024, 1, 10), "Pharmacy", 20, "Healthcare")
Gadget == Tx(Day(2024, 1, 10), "Gadget", 100, "Shopping")
Candy == Tx(Day(2024, 1, 11), "Candy", 99, "Shopping")

ImpulseLists == SeqsUpTo({Snack, Pill, Gadget, Candy}, MaxImpulse)

InitImpulse == InitMemory(ImpulseLists, {[hasKids |-> FALSE]})

SpecImpulse == InitImpulse /\ [][RunCalculateImpulseScore]_vars

InputDays == {input[i].date : i \in 1..Len(input)}

\* the transactions of day d that are non-essential and under 100
SmallNonEssential(d) ==
  {i \in 1..Len(input) :
     /\ input[i].date = d
     /\ input[i].category \notin
          {"Housing", "Bills & Utilities", "Healthcare", "Insurance",
           "Transportation"}
     /\ input[i].amount < 100}

ImpulseDays == {d \in InputDays : Cardinality(SmallNonEssential(d)) > 3}

\* C23: for a non-empty list the impulse score is
\* 100 x (dates with more than 3 non-essential transactions under 100)
\* / (distinct dates); it lies in 0..100 and is positive iff there is such
\* a date.
C23_ImpulseScore ==
  (out["impulse"] # <<>> /\ input # <<>>) =>
    LET score == out["impulse"][1][1]
    IN /\ score.den > 0
       /\ score.num * Cardinality(InputDays)
            = 100 * Cardinality(ImpulseDays) * score.den
       /\ score.num >= 0
       /\ score.num <= 100 * score.den
       /\ score.num > 0 <=> ImpulseDays # {}

\* two dates, one of them with four small non-essential purchases: score 50
C23_Witness ==
  /\ out["impulse"] = <<(<<[num |-> 50, den |-> 1]>>)>>
  /\ Cardinality(InputDays) = 2
  /\ Cardinality(ImpulseDays) = 1

----------------------------------------------------------------------------
(* Life stage *)

\* the 'family' branch moved in front of the low-spend branches
inferLifeStageFamilyFirst(monthlySpend, hasKids, hasDebt) ==
  IF hasKids THEN "family"
  ELSE IF monthlySpend < 2000 /\ hasDebt THEN "student"
  ELSE IF monthlySpend < 4000 THEN "early-career"
  ELSE IF monthlySpend > 6000 THEN "mid-career"
  ELSE "early-career"

inferLifeStage(monthlySpend, hasKids, hasDebt) ==
  IF monthlySpend < 2000 /\ hasDebt THEN "student"
  ELSE IF monthlySpend < 4000 /\ ~hasKids THEN "early-career"
  ELSE IF hasKids THEN "family"
  ELSE IF monthlySpend > 6000 THEN "mid-career"
  ELSE "early-career"

\* identity.lifeStage of the profile
LifeStageOf(es, md) ==
  inferLifeStage(md.averageMonthlySpend, inferLifestyle(es, md).hasKids, md.hasDebt)

KidsSchool == Tx(Day(2024, 1, 8), "Kids School", 900, "Education")

LifeLists == {<<>>, <<Rent1>>, <<KidsSchool>>}

LifeMetadatas ==
  [hasKids : BOOLEAN, hasDebt : BOOLEAN,
   averageMonthlySpend : {1500, 2000, 3000, 4000, 5000, 6000, 7000}]

InitLifeStage ==
  /\ input \in LifeLists
  /\ expenses = input
  /\ metadata \in LifeMetadatas
  /\ out = [a \in {"lifeStage"} |-> <<>>]
  /\ profiles = <<>>
  /\ memories = <<>>
  /\ storage = <<>>
  /\ NoParse

\* one extraction of the life stage from the list es and the metadata md
RunInferLifeStage(es, md) ==
  /\ input' = es
  /\ expenses' = es
  /\ metadata' = md
  /\ out' = [out EXCEPT !["lifeStage"] = <<LifeStageOf(es, md)>>]
  /\ UNCHANGED <<profiles, memories, storage>>
  /\ UNCHANGED parseVars

NextLifeStage ==
  \E es \in LifeLists, md \in LifeMetadatas : RunInferLifeStage(es, md)

\* every metadata of the model is eventually profiled
SpecLifeStage ==
  /\ InitLifeStage
  /\ [][NextLifeStage]_vars
  /\ \A md \in LifeMetadatas :
       WF_vars(\E es \in LifeLists : RunInferLifeStage(es, md))

LifeStage == out["lifeStage"][1]

\* the hasKids argument: the flag of the metadata or a description that
\* tells of children
Kids ==
  metadata.hasKids \/ \E i \in 1..Len(input) : input[i].description = "Kids School"

\* the branches in their order
BranchOrder ==
  out["lifeStage"] # <<>> =>
    LET spend == metadata.averageMonthlySpend
    IN /\ (spend < 2000 /\ metadata.hasDebt) => LifeStage = "student"
       /\ (~(spend < 2000 /\ metadata.hasDebt) /\ spend < 4000 /\ ~Kids)
            => LifeStage = "early-career"
       /\ (~(spend < 2000 /\ metadata.hasDebt) /\ Kids) => LifeStage = "family"
       /\ (~(spend < 2000 /\ metadata.hasDebt) /\ ~Kids /\ spend >= 4000
             /\ spend > 6000) => LifeStage = "mid-career"
       /\ (~(spend < 2000 /\ metadata.hasDebt) /\ ~Kids /\ spend >= 4000
             /\ spend <= 6000) => LifeStage = "early-career"

KidsAs(stage) ==
  /\ out["lifeStage"] = <<stage>>
  /\ Kids
  /\ metadata.averageMonthlySpend < 4000

\* C24 (as stated): the branches are checked in the order student,
\* early-career without kids, family, mid-career, early-career, and a
\* household with kids and low spend can come out as 'student' and can come
\* out as 'early-career'.
C24_LifeStageAsStated ==
  /\ []BranchOrder
  /\ <>KidsAs("student")
  /\ <>KidsAs("early-career")

\* C24: the branches are checked in the order student, early-career without
\* kids, family, mid-career, early-career; a household with kids and low
\* spend can come out as 'student', and a household with kids never comes
\* out as 'early-career' (nor as 'mid-career').
C24_LifeStageOrder ==
  /\ []BranchOrder
  /\ <>KidsAs("student")
  /\ [](out["lifeStage"] # <<>> /\ Kids => LifeStage \in {"student", "family"})

\* a household with kids, debt and a spend under 2000 profiled as 'student'
C24_Witness ==
  /\ KidsAs("student")
  /\ metadata.hasDebt
  /\ metadata.averageMonthlySpend < 2000

----------------------------------------------------------------------------
(* Metadata built by the parsers *)

BuiltLocally ==
  /\ settled # <<>>
  /\ Settled.status = "resolved"
  /\ Settled.source \in {"generateBasicMetadata", "combineResults"}

SettledDates == {Settled.expenses[i].date : i \in 1..Len(Settled.expenses)}

Earliest == CHOOSE d \in SettledDates : \A other \in SettledDates : d <= other

Latest == CHOOSE d \in SettledDates : \A other \in SettledDates : d >= other

\* 30 x month-span: the days between the earliest and the latest date, and
\* at least 30
MonthSpanDays ==
  IF SettledDates = {} THEN 30 ELSE Max2(Latest - Earliest, 30)

\* C25: in every metadata the parsers build themselves, averageMonthlySpend
\* = totalExpenses / month-span, with month-span
\* = max((latest date - earliest date in days) / 30, 1).
C25_AverageOverMonthSpan ==
  BuiltLocally =>
    Settled.metadata.averageMonthlySpend.num * MonthSpanDays
      = Settled.metadata.totalExpenses * 30
          * Settled.metadata.averageMonthlySpend.den

\* C26: in every metadata the parsers build themselves, periodStart is the
\* earliest and periodEnd the latest transaction date, whatever the order of
\* the rows: periodStart <= date <= periodEnd for every transaction.
C26_PeriodBoundsAllDates ==
  (BuiltLocally /\ SettledDates # {}) =>
    /\ Settled.metadata.periodStart = Earliest
    /\ Settled.metadata.periodEnd = Latest
    /\ \A d \in SettledDates :
         /\ Settled.metadata.periodStart <= d
         /\ d <= Settled.metadata.periodEnd

----------------------------------------------------------------------------
(* quickParseCSV: dates and amounts *)

DateFields(line) == {j \in 1..Len(line) : line[j].kind = "date"}

AmountFields(line) ==
  {j \in 1..Len(line) : line[j].kind = "number" /\ line[j].num # 0}

\* a line holding one date field and one amount field
OneDateOneAmount(line) ==
  Cardinality(DateFields(line)) = 1 /\ Cardinality(AmountFields(line)) = 1

\* the absolute value of its amount field
AmountFieldOf(line) ==
  Abs(line[CHOOSE j \in AmountFields(line) : TRUE].num)

\* C27: quickParseCSV never takes a date-shaped field as the amount: for a
\* line holding one date field and one amount field the amount is that of
\* the amount field, in whichever column the date is, and totalAmount is
\* the sum of these amounts when every line is such a line.
C27_DateNeverTakenAsAmount ==
  (settled # <<>> /\ Settled.status = "result") =>
    /\ \A k \in DOMAIN Settled.preview :
         OneDateOneAmount(QuickDataLines[k])
           => Settled.preview[k].amount = AmountFieldOf(QuickDataLines[k])
    /\ (\A k \in DOMAIN QuickDataLines : OneDateOneAmount(QuickDataLines[k]))
         => Settled.totalAmount
              = SumSeq([k \in DOMAIN QuickDataLines |->
                          AmountFieldOf(QuickDataLines[k])])

----------------------------------------------------------------------------
(* detectAnomalies on short lists *)

\* amount = avg + 3 * stdDev exactly: n * amount - s = 3 * sqrt(n * q - s * s)
AtThreeSigma(amount, n, s, q) ==
  LET x == n * amount - s
      d == n * q - s * s
      r == ISqrt(d)
  IN x > 0 /\ r * r = d /\ x = 3 * r

\* The first loop as the doubles decide it.  avg, variance and stdDev are
\* rounded, so when amount = avg + 3 * stdDev holds exactly the comparison
\* `amount > avg + 3 * stdDev` is true or false as the rounding errors fall
\* (tieExceeds); for the integer amounts of the model every other case is
\* decided as on the exact values.
UnusualSpendingInDoubles(es, tieExceeds) ==
  LET amounts == Amounts(es)
      s == SumSeq(amounts)
      q == SumSeq([i \in 1..Len(es) |-> amounts[i] * amounts[i]])
      hits == SelectSeq(es, LAMBDA e :
                \/ IsOutlier(e.amount, Len(es), s, q)
                \/ tieExceeds /\ AtThreeSigma(e.amount, Len(es), s, q))
  IN [i \in 1..Len(hits) |->
        [date |-> hits[i].date, type |-> "unusual-spending",
         description |-> hits[i].description, amount |-> hits[i].amount,
         resolved |-> FALSE]]

detectAnomaliesInDoubles(es, tieExceeds) ==
  UnusualSpendingInDoubles(es, tieExceeds) \o MissingData(SortByDate(es), 2)

RunDetectAnomaliesInDoubles ==
  \E tieExceeds \in BOOLEAN :
    Run("anomalies", detectAnomaliesInDoubles(expenses, tieExceeds),
        ExpensesAfterDetectAnomalies(expenses))

\* most equal purchases of a short list
MaxSame == 10

\* n purchases of the same amount on n consecutive days
Same(n, amount) ==
  [i \in 1..n |-> Tx(Day(2024, 1, 1) + i, "Coffee", amount, "Food & Dining")]

Dinner == Tx(Day(2024, 1, 20), "Dinner", 8, "Food & Dining")
Laptop == Tx(Day(2024, 1, 21), "Laptop", 1500, "Shopping")

ShortLists ==
  {Same(n, amount) \o tail :
     n \in 0..MaxSame, amount \in {1, 20},
     tail \in {<<>>, <<Dinner>>, <<Laptop>>}}

InitShort == InitMemory(ShortLists, {[hasKids |-> FALSE]})

SpecShort == InitShort /\ [][RunDetectAnomaliesInDoubles]_vars

\* C28: for every list of 10 or fewer transactions, whatever the amounts,
\* detectAnomalies reports no 'unusual-spending' anomaly.
C28_NoOutlierUpToTen ==
  (out["anomalies"] # <<>> /\ Len(input) <= 10) => Unusual = <<>>

----------------------------------------------------------------------------
(* Stage updates of MultiStageExpenseParser *)

\* (1, processing), (1, completed), ..., (5, processing), (5, completed)
StageOrder ==
  [i \in 1..10 |->
     <<(i + 1) \div 2, IF i % 2 = 1 THEN "processing" ELSE "completed">>]

\* the updates made so far are the first ones of that order
InStageOrder ==
  /\ Len(updates) <= Len(StageOrder)
  /\ \A i \in DOMAIN updates : updates[i] = StageOrder[i]

\* the LLM call throws, or its text is not JSON
FailedCalls == {answer \in FailedAnswers : answer.kind \in {"fail", "notJson"}}

C29_WitnessStage1 ==
  /\ parser = "multi"
  /\ settled # <<>>
  /\ Settled.error = "Failed to extract basic transactions"
  /\ updates = <<<<1, "processing">>>>

----------------------------------------------------------------------------
(* MemoryService: the stored profiles *)

\* this.memories.get(userId): <<>> for undefined
getMemory(userId) ==
  IF userId \in DOMAIN memories THEN <<memories[userId]>> ELSE <<>>

\* { ...existing, ...updates }, the updates being `partial`
Spread(existing, partial) ==
  [f \in DOMAIN existing \cup DOMAIN partial |->
     IF f \in DOMAIN partial THEN partial[f] ELSE existing[f]]

\* the Partial<UserMemoryProfile> values of the model: no key, or one
Updates == {<<>>, [totalInteractions |-> 9]}

updateMemory(userId, partial) ==
  /\ IF userId \in DOMAIN memories
     THEN LET memories2 ==
                [memories EXCEPT ![userId] = Spread(memories[userId], partial)]
          IN /\ memories' = memories2
             /\ storage' = saveToLocalStorage(memories2)
     ELSE UNCHANGED <<memories, storage>>
  /\ UNCHANGED <<expenses, input, metadata, out, profiles>>
  /\ UNCHANGED parseVars

\* a clearMemory that forgets to save
clearMemoryUnsaved(userId) ==
  /\ memories' = [u \in DOMAIN memories \ {userId} |-> memories[u]]
  /\ UNCHANGED <<expenses, input, metadata, out, profiles, storage>>
  /\ UNCHANGED parseVars

clearMemory(userId) ==
  /\ LET memories2 == [u \in DOMAIN memories \ {userId} |-> memories[u]]
     IN /\ memories' = memories2
        /\ storage' = saveToLocalStorage(memories2)
  /\ UNCHANGED <<expenses, input, metadata, out, profiles>>
  /\ UNCHANGED parseVars

NextStore ==
  \/ \E userId \in UserIds : extractMemoryFromExpenses(userId)
  \/ \E userId \in UserIds, partial \in Updates : updateMemory(userId, partial)
  \/ \E userId \in UserIds : clearMemory(userId)

\* the three calls in any order, on a service built over an empty localStorage
SpecStore == Init /\ [][NextStore]_vars

\* the persisted profile read back with its ISO strings turned into Dates
\* again and null into NaN
Revived(json) ==
  [derived |->
     [json.derived EXCEPT
        !.topMerchants =
          [i \in DOMAIN json.derived.topMerchants |->
             [json.derived.topMerchants[i] EXCEPT !.lastVisit = DateObject(@.day)]],
        !.recurringExpenses =
          [i \in DOMAIN json.derived.recurringExpenses |->
             [json.derived.recurringExpenses[i] EXCEPT
                !.nextDueDate = DateObject(@.day)]],
        !.anomalies =
          [i \in DOMAIN json.derived.anomalies |->
             [json.derived.anomalies[i] EXCEPT !.date = DateObject(@.day)]],
        !.impulseSpendingScore = IF @ = <<>> THEN <<NaN>> ELSE @],
   totalInteractions |-> json.totalInteractions,
   lastDataUpload |-> DateObject(json.lastDataUpload.day)]

\* the persisted entries are those of the map, value for value
PersistedEqual == storage = memories

\* the persisted entries are those of the map up to what JSON does to a
\* value: Dates as ISO strings, NaN as null
PersistedUpToJSON ==
  /\ DOMAIN storage = DOMAIN memories
  /\ \A u \in DOMAIN memories : Revived(storage[u]) = memories[u]

\* what the calls leave alone and what they remove
CallsKeepToTheirUser ==
  [][/\ \A userId \in UserIds, partial \in Updates :
          (updateMemory(userId, partial) /\ userId \notin DOMAIN memories)
            => UNCHANGED <<memories, storage>>
     /\ \A userId \in UserIds : clearMemory(userId) => getMemory(userId)' = <<>>
     /\ \A userId \in UserIds :
          (\/ extractMemoryFromExpenses(userId)
           \/ clearMemory(userId)
           \/ \E partial \in Updates : updateMemory(userId, partial))
          => \A other \in UserIds \ {userId} : getMemory(other)' = getMemory(other)
    ]_vars

====
